---- MODULE Spec2Model ----
(***************************************************************************)
(* Model of the lexical normalisation pipeline of AyurProject:             *)
(*   src/preprocessing/sanskrit_spell_checker.py  (SanskritSpellChecker)   *)
(*   src/preprocessing/text_cleaning.py           (line filters, matcher)  *)
(*                                                                         *)
(* A Python str is modelled as a sequence of code points, each written as *)
(* a short string ("a", "V", "a-" for a with macron, U+0101), so           *)
(* that lower(), strip(), slicing and substring tests are computed and not *)
(* assumed.  A float score is modelled as an exact fraction <<num, den>>.  *)
(***************************************************************************)
EXTENDS Integers, Sequences, FiniteSets, TLC

VARIABLES
    vocab,            \* self.vocab: set of terms
    vocab_iter,       \* iteration order of the set self.vocab (a permutation of it)
    vocab_lower,      \* self.vocab_lower
    trigram_index,    \* self.trigram_index: trigram -> set of terms
    word_frequencies, \* self.word_frequencies: term -> int
    cache,            \* self.cache: insertion-ordered dict (word, threshold) -> term
    max_cache_size,   \* self.max_cache_size
    last,             \* the last call made on the corrector and the value it returned
    batch,            \* batch_correct: the last call, the cache it started from, its result
    doc,              \* the document: detect_repeated_lines and process_all_pdfs on it
    clean,            \* text_cleaning: canonical dictionary, last call and its result
    cleaner,          \* the IntegratedTextCleaner instance: config, sets, stats, last call
    startup,          \* the files named at startup and what each initialization came to
    workers           \* the threads inside correct_word on the shared corrector: position and locals

vars == <<vocab, vocab_iter, vocab_lower, trigram_index, word_frequencies,
          cache, max_cache_size, last, batch, doc, clean, cleaner, startup, workers>>

checkerVars == <<vocab, vocab_iter, vocab_lower, trigram_index, word_frequencies,
                 cache, max_cache_size, last>>

-----------------------------------------------------------------------------
(* Bounds of the model *)

\* largest max_cache_size a corrector is configured with (10000 in the source)
MaxCacheSize == 4
\* longest list of words handed to one add_words call
MaxAddWords == 2
\* longest list of texts handed to batch_correct
MaxBatch == 2
\* most pages of a document handed to detect_repeated_lines
MaxPages == 10
\* longest list of lines handed to remove_headers_footers
MaxLines == 3

-----------------------------------------------------------------------------
(* Python values *)

\* Python's None; no str is this value since no code point is written "None"
None == <<"None">>

Min(a, b) == IF a <= b THEN a ELSE b
Max(a, b) == IF a >= b THEN a ELSE b
Abs(a) == IF a >= 0 THEN a ELSE -a

Range(s) == {s[i] : i \in 1..Len(s)}

\* the permutations of a finite set, as sequences without repetition
Perms(S) == {p \in [1..Cardinality(S) -> S] : \A i, j \in 1..Cardinality(S) : p[i] = p[j] => i = j}

\* str.lower() on one character
UpperToLower ==
    ("A" :> "a") @@ ("B" :> "b") @@ ("C" :> "c") @@ ("D" :> "d") @@ ("E" :> "e") @@ ("F" :> "f") @@
    ("G" :> "g") @@ ("H" :> "h") @@ ("I" :> "i") @@ ("J" :> "j") @@ ("K" :> "k") @@ ("L" :> "l") @@
    ("M" :> "m") @@ ("N" :> "n") @@ ("O" :> "o") @@ ("P" :> "p") @@ ("Q" :> "q") @@ ("R" :> "r") @@
    ("S" :> "s") @@ ("T" :> "t") @@ ("U" :> "u") @@ ("V" :> "v") @@ ("W" :> "w") @@ ("X" :> "x") @@
    ("Y" :> "y") @@ ("Z" :> "z") @@ ("A-" :> "a-")
LowerChar(c) == IF c \in DOMAIN UpperToLower THEN UpperToLower[c] ELSE c
Lower(s) == [i \in 1..Len(s) |-> LowerChar(s[i])]

\* characters with a diacritic ("a-" is U+0101, "A-" is U+0100): NFD splits them
\* into base letter + combining mark
Diacritics == ("a-" :> "a") @@ ("A-" :> "A")
PlainChar(c) == IF c \in DOMAIN Diacritics THEN Diacritics[c] ELSE c
\* _remove_diacritics: NFD, then drop the combining marks (category Mn)
RemoveDiacritics(s) == [i \in 1..Len(s) |-> PlainChar(s[i])]

\* [a-z] and [A-Z]
AsciiLower == {UpperToLower[c] : c \in DOMAIN UpperToLower \ {"A-"}}
AsciiUpper == DOMAIN UpperToLower \ {"A-"}
AsciiLetters == AsciiLower \cup AsciiUpper

\* a is a contiguous substring of b (Python: a in b)
IsSubstring(a, b) ==
    \E i \in 0..(Len(b) - Len(a)) : SubSeq(b, i + 1, i + Len(a)) = a

RECURSIVE LStrip(_, _)
LStrip(s, chars) ==
    IF Len(s) > 0 /\ s[1] \in chars THEN LStrip(Tail(s), chars) ELSE s
RECURSIVE RStrip(_, _)
RStrip(s, chars) ==
    IF Len(s) > 0 /\ s[Len(s)] \in chars THEN RStrip(SubSeq(s, 1, Len(s) - 1), chars) ELSE s
\* str.strip(chars)
Strip(s, chars) == RStrip(LStrip(s, chars), chars)

\* the characters correct_word strips: '.,;:!?"\'()[]{}'
PunctStripChars == {".", ",", ";", ":", "!", "?", "\"", "'", "(", ")", "[", "]", "{", "}"}
\* the whitespace str.strip() strips and \s matches
Whitespace == {" ", "\n", "\t"}

-----------------------------------------------------------------------------
(* Fractions: a float score is <<num, den>> with den > 0 *)

FracGeq(x, y) == x[1] * y[2] >= y[1] * x[2]
FracGt(x, y) == x[1] * y[2] > y[1] * x[2]
FracEq(x, y) == x[1] * y[2] = y[1] * x[2]

-----------------------------------------------------------------------------
(* SanskritSpellChecker: pure helpers *)

\* _get_trigrams: the 3-character windows of '#' + word + '#'
GetTrigrams(word) ==
    LET p == <<"#">> \o word \o <<"#">>
    IN  {SubSeq(p, i, i + 2) : i \in 1..(Len(p) - 2)}

\* difflib find_longest_match without junk: the longest common block, the one
\* starting earliest in a, and among those the one starting earliest in b
LongestMatch(a, b) ==
    LET Blocks == {x \in (1..Len(a)) \X (1..Len(b)) \X (1..Min(Len(a), Len(b))) :
                      /\ x[1] + x[3] - 1 <= Len(a)
                      /\ x[2] + x[3] - 1 <= Len(b)
                      /\ SubSeq(a, x[1], x[1] + x[3] - 1) = SubSeq(b, x[2], x[2] + x[3] - 1)}
        Before(x, y) == \/ x[3] > y[3]
                        \/ x[3] = y[3] /\ x[1] < y[1]
                        \/ x[3] = y[3] /\ x[1] = y[1] /\ x[2] <= y[2]
    IN  IF Blocks = {} THEN <<1, 1, 0>>
        ELSE CHOOSE x \in Blocks : \A y \in Blocks : Before(x, y)

\* difflib get_matching_blocks: total size of the blocks found by recursing on
\* the pieces left and right of the longest match
RECURSIVE MatchCount(_, _)
MatchCount(a, b) ==
    IF Len(a) = 0 \/ Len(b) = 0 THEN 0
    ELSE LET m == LongestMatch(a, b)
         IN  IF m[3] = 0 THEN 0
             ELSE m[3]
                  + MatchCount(SubSeq(a, 1, m[1] - 1), SubSeq(b, 1, m[2] - 1))
                  + MatchCount(SubSeq(a, m[1] + m[3], Len(a)), SubSeq(b, m[2] + m[3], Len(b)))

\* _similarity_score; SequenceMatcher.ratio() is 2*M/T
SimilarityScore(word1, word2) ==
    LET w1 == Lower(word1)
        w2 == Lower(word2)
        len_diff == Abs(Len(w1) - Len(w2))
        mx == Max(Len(w1), Len(w2))
    IN  IF w1 = w2 THEN <<1, 1>>
        ELSE IF RemoveDiacritics(w1) = RemoveDiacritics(w2) THEN <<19, 20>>
        \* ratio = 2*M/T ; final = ratio * (1 - (len_diff/mx) * 0.3)
        ELSE <<2 * MatchCount(w1, w2) * (10 * mx - 3 * len_diff),
               (Len(w1) + Len(w2)) * 10 * mx>>

-----------------------------------------------------------------------------
(* SanskritSpellChecker: inputs of the model *)

W_vata == <<"v", "a", "t", "a">>
W_VATA == <<"V", "A", "T", "A">>
W_vatta == <<"v", "a", "t", "t", "a">>
W_Vatta == <<"V", "a", "t", "t", "a">>
W_vaatta == <<"v", "a-", "t", "t", "a">>
W_Vata == <<"V", "a", "t", "a">>
W_vatta_dot == <<"v", "a", "t", "t", "a", ".">>
W_va == <<"v", "a">>

\* the terms a vocabulary file or an add_words call may hold
VocabUniverse == {W_vata, W_Vatta, W_vaatta}
\* the words handed to correct_word while the vocabulary grows
InputWords == {W_vatta, W_Vatta}
\* the words handed to correct_word on a fixed vocabulary
CacheWords == {W_vatta, W_Vatta, W_VATA, W_Vata, W_vatta_dot, W_vata, W_va}
\* correct_word's default threshold 0.75, in hundredths
DefaultThreshold == 75
\* the thresholds of the calls: the default and a stricter 0.9
Thresholds == {DefaultThreshold, 90}
\* correct_word's default max_candidates
DefaultMaxCandidates == 10
\* the max_candidates of the calls: the default and an explicit 1
MaxCandidateValues == {1, DefaultMaxCandidates}
CacheSizes == 1..MaxCacheSize

\* the terms and frequencies a vocabulary file with counts may hold, and the
\* words asked about on such a vocabulary
W_VA == <<"V", "A">>
W_va_dot == <<"v", "a", ".">>
W_dots == <<".", ".">>
FuzzyUniverse == {W_vata, W_Vata, W_vaatta, W_va}
FileFrequencies == {1, 2}
FuzzyWords == {W_vatta, W_VA, W_va_dot, W_dots}

\* _similarity_score of the pairs (stripped word, term) the model meets,
\* computed once (@@ makes the table an explicit function)
ScoreTable ==
    [p \in {Strip(w, PunctStripChars) :
                w \in InputWords \cup CacheWords \cup VocabUniverse \cup FuzzyWords}
            \X (VocabUniverse \cup FuzzyUniverse) |-> SimilarityScore(p[1], p[2])] @@ <<>>
Score(word, cand) ==
    IF <<word, cand>> \in DOMAIN ScoreTable
    THEN ScoreTable[<<word, cand>>]
    ELSE SimilarityScore(word, cand)

-----------------------------------------------------------------------------
(* SanskritSpellChecker: state-dependent operations *)

\* position of a term in the iteration order of self.vocab (0: not in it)
IterPos(w) ==
    IF \E i \in 1..Len(vocab_iter) : vocab_iter[i] = w
    THEN CHOOSE i \in 1..Len(vocab_iter) : vocab_iter[i] = w
    ELSE 0

\* trigram_index.get(trigram, [])
Bucket(index, g) == IF g \in DOMAIN index THEN index[g] ELSE {}

\* candidate_scores of _get_candidates_fast: shared trigrams per term
Votes(index, word, cand) ==
    Cardinality({g \in GetTrigrams(Lower(word)) : cand \in Bucket(index, g)})

\* _get_candidates_fast: the max_candidates terms with most votes; sorted() is
\* stable, so terms with equal votes keep the order in which the hash iteration
\* met them, here the iteration order of the vocabulary
GetCandidatesFast(index, word, max_candidates) ==
    LET voted == UNION {Bucket(index, g) : g \in GetTrigrams(Lower(word))}
        Ahead(c, d) == \/ Votes(index, word, c) > Votes(index, word, d)
                       \/ /\ Votes(index, word, c) = Votes(index, word, d)
                          /\ IterPos(c) < IterPos(d)
    IN  {c \in voted : Cardinality({d \in voted : Ahead(d, c)}) < max_candidates}

\* the threshold (hundredths) as a fraction
ThresholdFrac(t) == <<t, 100>>

\* index of key (word, threshold) in the cache, 0 when absent
CacheIndex(c, word, t) ==
    IF \E i \in 1..Len(c) : c[i].word = word /\ c[i].threshold = t
    THEN CHOOSE i \in 1..Len(c) : c[i].word = word /\ c[i].threshold = t
    ELSE 0

\* _update_cache dropping the len//4 newest entries
UpdateCacheDropNewest(c, word, t, value) ==
    LET items_to_remove == Len(c) \div 4
        kept == IF Len(c) >= max_cache_size
                THEN SubSeq(c, 1, Len(c) - items_to_remove)
                ELSE c
    IN  Append(kept, [word |-> word, threshold |-> t, value |-> value])

\* _update_cache: when full drop the len//4 oldest entries, then store
UpdateCache(c, word, t, value) ==
    LET items_to_remove == Len(c) \div 4
        kept == IF Len(c) >= max_cache_size
                THEN SubSeq(c, items_to_remove + 1, Len(c))
                ELSE c
        i == CacheIndex(kept, word, t)
        entry == [word |-> word, threshold |-> t, value |-> value]
    IN  IF i = 0 THEN Append(kept, entry) ELSE [kept EXCEPT ![i] = entry]

\* word_frequencies.get(candidate, 1)
FreqOf(c) == IF c \in DOMAIN word_frequencies THEN word_frequencies[c] ELSE 1

\* the sort with the key (freq, score): frequency compared first
BestMatchFrequencyFirst(word_clean, scored) ==
    LET Better(c, d) ==
            \/ FreqOf(c) > FreqOf(d)
            \/ /\ FreqOf(c) = FreqOf(d)
               /\ FracGt(Score(word_clean, c), Score(word_clean, d))
            \/ /\ FreqOf(c) = FreqOf(d)
               /\ FracEq(Score(word_clean, c), Score(word_clean, d))
               /\ IterPos(c) <= IterPos(d)
    IN  CHOOSE c \in scored : \A d \in scored : Better(c, d)

\* scored_candidates.sort(key=(score, freq), reverse=True)[0]; the sort is
\* stable, equal keys keep the iteration order of the candidate set
BestMatch(word_clean, scored) ==
    LET Better(c, d) ==
            \/ FracGt(Score(word_clean, c), Score(word_clean, d))
            \/ /\ FracEq(Score(word_clean, c), Score(word_clean, d))
               /\ FreqOf(c) > FreqOf(d)
            \/ /\ FracEq(Score(word_clean, c), Score(word_clean, d))
               /\ FreqOf(c) = FreqOf(d)
               /\ IterPos(c) <= IterPos(d)
    IN  CHOOSE c \in scored : \A d \in scored : Better(c, d)

\* matches[0] of the case-insensitive step: the first term, in the iteration
\* order of self.vocab, equal to the word under lower()
CaseMatches(word_clean) == {w \in vocab : Lower(w) = Lower(word_clean)}
FirstCaseMatch(word_clean) ==
    CHOOSE w \in CaseMatches(word_clean) :
        \A x \in CaseMatches(word_clean) : IterPos(w) <= IterPos(x)

\* "self._update_cache(cache_key, result); return result"
StoreAndReturn(c, word, t, result) ==
    [ret |-> result, cache |-> UpdateCache(c, word, t, result)]

\* correct_word without "if not scored_candidates: return None":
\* scored_candidates[0] of an empty list raises IndexError
ReturnBestUnguarded(c, word, word_clean, t, scored) ==
    IF scored = {} THEN [ret |-> <<"IndexError">>, cache |-> c]
    ELSE StoreAndReturn(c, word, t, BestMatch(word_clean, scored))

\* the end of correct_word: the best of the scored candidates, if any
ReturnBest(c, word, word_clean, t, scored) ==
    IF scored = {} THEN [ret |-> None, cache |-> c]
    ELSE StoreAndReturn(c, word, t, BestMatch(word_clean, scored))

\* the fuzzy stage of correct_word on the shortlisted candidates
FuzzyStage(c, word, word_clean, t, candidates) ==
    IF candidates = {} THEN [ret |-> None, cache |-> c]
    ELSE ReturnBest(c, word, word_clean, t,
                    {x \in candidates : FracGeq(Score(word_clean, x), ThresholdFrac(t))})

\* correct_word without "if len(word_clean) < 3: return None"
CorrectUncachedAnyLength(c, word, word_clean, t, max_candidates) ==
    IF word_clean \in vocab THEN [ret |-> word_clean, cache |-> c]
    ELSE IF Lower(word_clean) \in vocab_lower /\ CaseMatches(word_clean) # {}
         THEN StoreAndReturn(c, word, t, FirstCaseMatch(word_clean))
    ELSE FuzzyStage(c, word, word_clean, t,
                    GetCandidatesFast(trigram_index, word_clean, max_candidates))

\* correct_word after the cache lookup missed
CorrectUncached(c, word, word_clean, t, max_candidates) ==
    IF word_clean \in vocab THEN [ret |-> word_clean, cache |-> c]
    ELSE IF Lower(word_clean) \in vocab_lower /\ CaseMatches(word_clean) # {}
         THEN StoreAndReturn(c, word, t, FirstCaseMatch(word_clean))
    ELSE IF Len(word_clean) < 3 THEN [ret |-> None, cache |-> c]
    ELSE FuzzyStage(c, word, word_clean, t,
                    GetCandidatesFast(trigram_index, word_clean, max_candidates))

\* the cache hit of correct_word, i the position of the key (0: a miss)
CorrectFrom(c, i, word, t, max_candidates) ==
    IF i # 0 THEN [ret |-> c[i].value, cache |-> c]
    ELSE CorrectUncached(c, word, Strip(word, PunctStripChars), t, max_candidates)

\* correct_word on a corrector whose cache is c: the value returned and the
\* cache left behind
CorrectWord(c, word, t, max_candidates) ==
    CorrectFrom(c, CacheIndex(c, word, t), word, t, max_candidates)

\* add_words indexing the word as written instead of its lowercase form
AddOneWordNoLower(st, word, frequencies) ==
    [vocab |-> st.vocab \cup {word},
     vocab_lower |-> st.vocab_lower \cup {Lower(word)},
     word_frequencies |->
        (word :> (IF word \in DOMAIN frequencies
                  THEN frequencies[word] ELSE 1)) @@ st.word_frequencies,
     trigram_index |->
        [g \in DOMAIN st.trigram_index \cup GetTrigrams(word) |->
            IF g \in GetTrigrams(word)
            THEN Bucket(st.trigram_index, g) \cup {word}
            ELSE st.trigram_index[g]]]

\* the body of add_words' loop for one word, on st = the corrector's fields;
\* frequencies is a dict, the empty one standing for None as well (both are
\* falsy in "if frequencies and word in frequencies")
AddOneWord(st, word, frequencies) ==
    [vocab |-> st.vocab \cup {word},
     vocab_lower |-> st.vocab_lower \cup {Lower(word)},
     word_frequencies |->
        (word :> (IF word \in DOMAIN frequencies
                  THEN frequencies[word] ELSE 1)) @@ st.word_frequencies,
     trigram_index |->
        [g \in DOMAIN st.trigram_index \cup GetTrigrams(Lower(word)) |->
            IF g \in GetTrigrams(Lower(word))
            THEN Bucket(st.trigram_index, g) \cup {word}
            ELSE st.trigram_index[g]]]

\* add_words: the loop over words
RECURSIVE AddWords(_, _, _)
AddWords(st, words, frequencies) ==
    IF words = <<>> THEN st
    ELSE AddWords(AddOneWord(st, Head(words), frequencies), Tail(words), frequencies)

\* _build_trigram_index over a vocabulary
BuildTrigramIndex(v) ==
    [g \in UNION {GetTrigrams(Lower(w)) : w \in v} |->
        {w \in v : g \in GetTrigrams(Lower(w))}]

\* the iteration orders a set may have after insertions into one iterated as
\* old: the terms already present keep their relative order
OrdersAfter(old, newSet) ==
    {p \in Perms(newSet) :
        \A i, j \in 1..Len(old) :
            i < j => \E a, b \in 1..Len(p) : a < b /\ p[a] = old[i] /\ p[b] = old[j]}

-----------------------------------------------------------------------------
(* SanskritSpellChecker: the state machine *)

\* the fields of the parts of the model a specification does not use
Idle == [op |-> "idle"]

\* __init__: the vocabulary is loaded with every frequency 1 (as
\* initialize_default_vocabulary sets it, and load_vocabulary for a file without
\* counts), then _build_trigram_index runs
CheckerInit ==
    /\ vocab \in (SUBSET VocabUniverse) \ {{}}
    /\ vocab_iter \in Perms(vocab)
    /\ vocab_lower = {Lower(w) : w \in vocab}
    /\ word_frequencies = [w \in vocab |-> 1]
    /\ trigram_index = BuildTrigramIndex(vocab)
    /\ cache = <<>>
    /\ max_cache_size = MaxCacheSize
    /\ last = [op |-> "init", value |-> None]

Init ==
    /\ cleaner = Idle
    /\ startup = Idle
    /\ workers = Idle
    /\ CheckerInit
    /\ batch = Idle
    /\ doc = Idle
    /\ clean = Idle

\* a call correct_word(word, threshold, max_candidates)
CorrectWordCall(words, thresholds, maxCandidates) ==
    \E word \in words, t \in thresholds, mc \in maxCandidates :
        \E r \in {CorrectWord(cache, word, t, mc)} :
            /\ cache' = r.cache
            /\ last' = [op |-> "correct_word", value |-> r.ret]
            /\ UNCHANGED <<vocab, vocab_iter, vocab_lower, trigram_index,
                           word_frequencies, max_cache_size, batch, doc, clean, cleaner, startup, workers>>

\* the lists of words handed to add_words: up to MaxAddWords terms; the second
\* of two being the first again or the next one of the universe
WordLists ==
    {ws \in UNION {[1..n -> VocabUniverse] : n \in 1..MaxAddWords} :
        \A i \in 2..Len(ws) : ws[i] = ws[1] \/ ws[i - 1] = W_vata}

\* the frequencies arguments giving some of the words a count among counts;
\* with no counts, the one argument is no frequencies at all
FrequencyArgs(words, counts) ==
    UNION {[S -> counts] : S \in SUBSET Range(words)}

\* add_words setting every frequency anew
AddWordsCallRebuilding(counts) ==
    \E words \in WordLists :
        \E frequencies \in FrequencyArgs(words, counts) :
            \E st \in {AddWords([vocab |-> vocab, vocab_lower |-> vocab_lower,
                                  word_frequencies |-> word_frequencies,
                                  trigram_index |-> trigram_index],
                                 words, frequencies)} :
                /\ vocab' = st.vocab
                /\ vocab_lower' = st.vocab_lower
                /\ word_frequencies' = st.word_frequencies
                /\ trigram_index' = BuildTrigramIndex(Range(words))
                /\ vocab_iter' \in OrdersAfter(vocab_iter, st.vocab)
                /\ last' = [op |-> "add_words", value |-> None]
                /\ UNCHANGED <<cache, max_cache_size, batch, doc, clean, cleaner, startup, workers>>

\* a call add_words(words, frequencies)
AddWordsCall(counts) ==
    \E words \in WordLists :
        \E frequencies \in FrequencyArgs(words, counts) :
            \E st \in {AddWords([vocab |-> vocab, vocab_lower |-> vocab_lower,
                                  word_frequencies |-> word_frequencies,
                                  trigram_index |-> trigram_index],
                                 words, frequencies)} :
                /\ vocab' = st.vocab
                /\ vocab_lower' = st.vocab_lower
                /\ word_frequencies' = st.word_frequencies
                /\ trigram_index' = st.trigram_index
                /\ vocab_iter' \in OrdersAfter(vocab_iter, st.vocab)
                /\ last' = [op |-> "add_words", value |-> None]
                /\ UNCHANGED <<cache, max_cache_size, batch, doc, clean, cleaner, startup, workers>>

\* the corrector while its vocabulary grows
Next ==
    \/ CorrectWordCall(InputWords, Thresholds, MaxCandidateValues)
    \/ AddWordsCall({})

Spec == Init /\ [][Next]_vars

-----------------------------------------------------------------------------
(* SanskritSpellChecker: correct_text and batch_correct *)

\* characters that are neither \w nor \s
PunctChars == PunctStripChars \cup {"-", "#", "*", "^", "|"}
\* code points of the block \u0900-\u097F: a letter ("ka", U+0915, which \w
\* matches) and a vowel sign ("-aa", U+093E, which \w does not match)
DevanagariLetters == {"ka"}
DevanagariSigns == {"-aa"}

\* \s
IsSpace(c) == c \in Whitespace
\* \w
IsWordChar(c) == c \notin Whitespace \cup PunctChars \cup DevanagariSigns
\* [\w\u0900-\u097F]
InWordClass(c) == IsWordChar(c) \/ c \in DevanagariLetters \cup DevanagariSigns
\* [^\w\s]
IsPunct(c) == ~IsWordChar(c) /\ ~IsSpace(c)

\* \b after the first p characters of text
Boundary(text, p) ==
    (p >= 1 /\ IsWordChar(text[p])) # (p < Len(text) /\ IsWordChar(text[p + 1]))

\* end of the match of \b[\w\u0900-\u097F]+\b starting after p characters
\* (0: no match): the greedy run, backtracked to the last \b
WordMatchEnd(text, p) ==
    LET ends == {q \in (p + 1)..Len(text) :
                    /\ \A k \in (p + 1)..q : InWordClass(text[k])
                    /\ Boundary(text, q)}
    IN  IF Boundary(text, p) /\ ends # {}
        THEN CHOOSE q \in ends : \A r \in ends : r <= q
        ELSE 0

\* re.findall(r'\b[\w\u0900-\u097F]+\b|[^\w\s]', text) from position p on
RECURSIVE FindAll(_, _)
FindAll(text, p) ==
    IF p >= Len(text) THEN <<>>
    ELSE IF WordMatchEnd(text, p) # 0
         THEN <<SubSeq(text, p + 1, WordMatchEnd(text, p))>>
              \o FindAll(text, WordMatchEnd(text, p))
    ELSE IF IsPunct(text[p + 1])
         THEN <<SubSeq(text, p + 1, p + 1)>> \o FindAll(text, p + 1)
    ELSE FindAll(text, p + 1)

\* the texts handed to batch_correct
Text_two_words == W_vatta \o <<",", " ">> \o W_Vatta
Text_caps == W_VATA \o <<" ">> \o W_Vata \o <<"!">>
Text_empty == <<>>
BatchTexts == {Text_two_words, Text_caps, Text_empty}
\* re.findall on the texts of the model, computed once
TokenTable == [text \in BatchTexts |-> FindAll(text, 0)] @@ <<>>
Tokens(text) ==
    IF text \in DOMAIN TokenTable THEN TokenTable[text] ELSE FindAll(text, 0)

TextLists == UNION {[1..n -> BatchTexts] : n \in 0..MaxBatch}

\* ''.join(list of str)
RECURSIVE Join(_)
Join(parts) == IF parts = <<>> THEN <<>> ELSE Head(parts) \o Join(Tail(parts))

\* sep.join(parts)
RECURSIVE JoinWith(_, _)
JoinWith(parts, sep) ==
    IF parts = <<>> THEN <<>>
    ELSE IF Len(parts) = 1 THEN parts[1]
    ELSE parts[1] \o sep \o JoinWith(Tail(parts), sep)

\* "corrected if corrected else word" for the result r of correct_word
KeepOrReplace(word, r) ==
    [out |-> IF r.ret # None /\ r.ret # <<>> THEN r.ret ELSE word, cache |-> r.cache]

\* one round of correct_text's loop: re.match(r'[^\w\s]', word) keeps
\* punctuation as it is, any other token goes through correct_word
CorrectToken(c, word, t) ==
    IF IsPunct(word[1]) THEN [out |-> word, cache |-> c]
    ELSE KeepOrReplace(word, CorrectWord(c, word, t, DefaultMaxCandidates))

\* corrected_words.append
AppendFirst(out, rest) ==
    [corrected_words |-> <<out>> \o rest.corrected_words, cache |-> rest.cache]

\* the loop of correct_text over the tokens: the corrected tokens and the cache
RECURSIVE CorrectTokens(_, _, _)
RestOfTokens(first, words, t) ==
    AppendFirst(first.out, CorrectTokens(first.cache, words, t))
CorrectTokens(c, words, t) ==
    IF words = <<>> THEN [corrected_words |-> <<>>, cache |-> c]
    ELSE RestOfTokens(CorrectToken(c, Head(words), t), Tail(words), t)

\* ' '.join(corrected_words)
JoinTokensSpaced(r) == [ret |-> JoinWith(r.corrected_words, <<" ">>), cache |-> r.cache]

\* ''.join(corrected_words)
JoinTokens(r) == [ret |-> Join(r.corrected_words), cache |-> r.cache]

\* correct_text on a corrector whose cache is c
CorrectText(c, text, t) == JoinTokens(CorrectTokens(c, Tokens(text), t))

\* corrected.append(corrected_text)
AppendText(first, rest) == [ret |-> <<first>> \o rest.ret, cache |-> rest.cache]

\* batch_correct appending the corrected text only when the text is not empty
RECURSIVE BatchCorrectSkipEmpty(_, _, _)
RestOfBatchSkipEmpty(r, texts, t) ==
    IF Head(texts) = <<>> THEN BatchCorrectSkipEmpty(r.cache, Tail(texts), t)
    ELSE AppendText(r.ret, BatchCorrectSkipEmpty(r.cache, Tail(texts), t))
BatchCorrectSkipEmpty(c, texts, t) ==
    IF texts = <<>> THEN [ret |-> <<>>, cache |-> c]
    ELSE RestOfBatchSkipEmpty(CorrectText(c, Head(texts), t), texts, t)

\* batch_correct: the loop appending correct_text(text) for each text in turn
RECURSIVE BatchCorrect(_, _, _)
RestOfBatch(r, texts, t) == AppendText(r.ret, BatchCorrect(r.cache, texts, t))
BatchCorrect(c, texts, t) ==
    IF texts = <<>> THEN [ret |-> <<>>, cache |-> c]
    ELSE RestOfBatch(CorrectText(c, Head(texts), t), Tail(texts), t)

\* a call batch_correct(texts, threshold); batch records the call: its
\* arguments, the cache it started from and the list it returned
BatchCorrectCall ==
    \E texts \in TextLists, t \in {DefaultThreshold} :
        \E r \in {BatchCorrect(cache, texts, t)} :
            /\ cache' = r.cache
            /\ last' = [op |-> "batch_correct", value |-> None]
            /\ batch' = [op |-> "batch_correct", texts |-> texts, threshold |-> t,
                         cache_before |-> cache, ret |-> r.ret]
            /\ UNCHANGED <<vocab, vocab_iter, vocab_lower, trigram_index,
                           word_frequencies, max_cache_size, doc, clean, cleaner, startup, workers>>

-----------------------------------------------------------------------------
(* text_cleaning: detect_repeated_lines *)

\* l.strip().lower() of the lines l of a page with l.strip() not empty
UniqueLines(page) ==
    {Lower(Strip(page[i], Whitespace)) :
        i \in {j \in 1..Len(page) : Strip(page[j], Whitespace) # <<>>}}

\* line_counts[line] += 1 for the lines of one page
CountPage(line_counts, unique_lines) ==
    [line \in DOMAIN line_counts \cup unique_lines |->
        (IF line \in DOMAIN line_counts THEN line_counts[line] ELSE 0)
        + (IF line \in unique_lines THEN 1 ELSE 0)]

\* the Counter after the loop over the pages
RECURSIVE LineCounts(_)
LineCounts(pages) ==
    IF pages = <<>> THEN <<>>
    ELSE CountPage(LineCounts(SubSeq(pages, 1, Len(pages) - 1)),
                   UniqueLines(pages[Len(pages)]))

\* the lines kept by "count / total_pages > min_repeat"
RepeatedAmongStrict(line_counts, total_pages, min_repeat) ==
    {line \in DOMAIN line_counts :
        line_counts[line] * min_repeat[2] > min_repeat[1] * total_pages}

\* the lines kept by "count / total_pages >= min_repeat", min_repeat a fraction
RepeatedAmong(line_counts, total_pages, min_repeat) ==
    {line \in DOMAIN line_counts :
        line_counts[line] * min_repeat[2] >= min_repeat[1] * total_pages}

\* detect_repeated_lines(all_pages, min_repeat)
DetectRepeatedLines(all_pages, min_repeat) ==
    RepeatedAmong(LineCounts(all_pages), Len(all_pages), min_repeat)

\* lines of the pages of the model
L_header == <<" ", "H", "d", " ">>
L_header_lower == <<"h", "d">>
L_body == <<"x">>
L_other == <<"Y">>
L_blank == <<" ", " ">>
L_empty == <<>>
\* the pages: one with the header twice in two spellings, one without it
Page_header == <<L_header, L_body, L_header_lower, L_blank>>
Page_plain == <<L_body, L_empty, L_other>>
PageKinds == {Page_header, Page_plain}
\* the documents: up to MaxPages pages
Documents == UNION {[1..n -> PageKinds] : n \in 0..MaxPages}
\* min_repeat: the default 0.3, and 0.5
DefaultMinRepeat == <<3, 10>>
MinRepeats == {DefaultMinRepeat, <<1, 2>>}

\* a document is loaded; the corrector is not used by text_cleaning
RepeatInit ==
    /\ cleaner = Idle
    /\ startup = Idle
    /\ workers = Idle
    /\ CheckerInit
    /\ vocab = {W_vata}
    /\ batch = Idle
    /\ clean = Idle
    /\ doc \in {[op |-> "loaded", all_pages |-> d] : d \in Documents}

\* the call detect_repeated_lines(all_pages, min_repeat) on the loaded document
\* returns
DetectRepeatedLinesCall ==
    /\ doc.op = "loaded"
    /\ \E min_repeat \in MinRepeats :
           doc' = [op |-> "detect_repeated_lines", all_pages |-> doc.all_pages,
                   min_repeat |-> min_repeat,
                   ret |-> DetectRepeatedLines(doc.all_pages, min_repeat)]
    /\ UNCHANGED <<checkerVars, batch, clean, cleaner, startup, workers>>

NextRepeat == DetectRepeatedLinesCall

SpecRepeat == RepeatInit /\ [][NextRepeat]_vars

-----------------------------------------------------------------------------
(* text_cleaning: the canonical terms, normalize_spelling,
   extract_ayurveda_entities, remove_headers_footers *)

\* AYUR_TERMS, read from resources/ayurveda_terms.json when the module is
\* loaded: canonical name -> list of variants, in the order of the file
AYUR_TERMS ==
    << [canonical |-> <<"p", "i", "t", "t", "a">>, variants |-> <<<<"p", "i", "t", "h", "a">>>>],
       [canonical |-> <<"d", "o", "s", "h", "a">>, variants |-> <<<<"d", "o", "s", "a">>>>],
       [canonical |-> <<"V", "a", "t", "a">>, variants |-> <<>>] >>

\* list(AYUR_TERMS.keys())
CANONICAL_NAMES == [i \in 1..Len(AYUR_TERMS) |-> AYUR_TERMS[i].canonical]

\* re.sub(r"[^a-zA-Z]", "", word)
LettersOnly(word) ==
    LET IsLetter(c) == c \in AsciiLetters
    IN SelectSeq(word, IsLetter)

\* length of a longest common subsequence
RECURSIVE LCS(_, _)
LCS(a, b) ==
    IF a = <<>> \/ b = <<>> THEN 0
    ELSE IF Head(a) = Head(b) THEN 1 + LCS(Tail(a), Tail(b))
    ELSE Max(LCS(Tail(a), b), LCS(a, Tail(b)))

\* rapidfuzz fuzz.ratio on the 0-100 scale, as a fraction:
\* 100 * 2 * LCS / (len(a) + len(b)), and 100 for two empty strings
FuzzRatio(a, b) ==
    IF Len(a) + Len(b) = 0 THEN <<100, 1>>
    ELSE <<200 * LCS(a, b), Len(a) + Len(b)>>

\* the processor extractOne applies to the query and the choices: none in
\* rapidfuzz 3, lower-casing (default_process, on letters) in rapidfuzz 2
Process(str, default_process) == IF default_process THEN Lower(str) ELSE str

\* the index of the best choice, the first one among equal scores
BestChoice(query, choices, default_process) ==
    CHOOSE i \in 1..Len(choices) :
        \A j \in 1..Len(choices) :
            \/ FracGt(FuzzRatio(Process(query, default_process),
                                Process(choices[i], default_process)),
                      FuzzRatio(Process(query, default_process),
                                Process(choices[j], default_process)))
            \/ /\ FracEq(FuzzRatio(Process(query, default_process),
                                   Process(choices[i], default_process)),
                         FuzzRatio(Process(query, default_process),
                                   Process(choices[j], default_process)))
               /\ i <= j

\* process.extractOne(query, choices, scorer=fuzz.ratio): the tuple
\* (choice, score, index), or None for no choices
ExtractOne(query, choices, default_process) ==
    IF choices = <<>> THEN None
    ELSE << choices[BestChoice(query, choices, default_process)],
            FuzzRatio(Process(query, default_process),
                      Process(choices[BestChoice(query, choices, default_process)],
                              default_process)),
            BestChoice(query, choices, default_process) - 1 >>

\* the terms at which the loop "for canonical, variants in AYUR_TERMS.items()"
\* would return
ExactOrVariant(word_clean) ==
    {i \in 1..Len(AYUR_TERMS) :
        \/ word_clean \in Range(AYUR_TERMS[i].variants)
        \/ Lower(word_clean) = Lower(AYUR_TERMS[i].canonical)}

\* the canonical name the loop returns: that of the first such term
FirstExactOrVariant(word_clean) ==
    AYUR_TERMS[CHOOSE i \in ExactOrVariant(word_clean) :
                   \A j \in ExactOrVariant(word_clean) : i <= j].canonical

\* "if match and match[1] >= 90", then the guard on raw_text
AcceptMatch(word, raw_text, match) ==
    IF match # None /\ FracGeq(match[2], <<90, 1>>)
    THEN IF /\ raw_text # None
            /\ raw_text # <<>>
            /\ ~IsSubstring(Lower(match[1]), Lower(raw_text))
         THEN word
         ELSE match[1]
    ELSE word

\* normalize_spelling(word, raw_text)
NormalizeSpelling(word, raw_text, default_process) ==
    IF LettersOnly(word) = <<>> THEN word
    ELSE IF ExactOrVariant(LettersOnly(word)) # {}
    THEN FirstExactOrVariant(LettersOnly(word))
    ELSE AcceptMatch(word, raw_text,
                     ExtractOne(LettersOnly(word), CANONICAL_NAMES, default_process))

\* the test of extract_ayurveda_entities without text.lower()
EntityFoundCaseSensitive(canonical, text) == IsSubstring(Lower(canonical), text)

\* "canonical.lower() in text_lower"
EntityFound(canonical, text) == IsSubstring(Lower(canonical), Lower(text))

\* entities_found after the loop over CANONICAL_NAMES
EntitiesFound(text) ==
    {CANONICAL_NAMES[i] : i \in {j \in 1..Len(CANONICAL_NAMES) :
                                    EntityFound(CANONICAL_NAMES[j], text)}}

\* the loop body of remove_headers_footers without the test for terms
KeepLineUnprotected(line, repeated_lines) ==
    /\ Strip(line, Whitespace) # <<>>
    /\ Lower(Strip(line, Whitespace)) \notin repeated_lines

\* the loop body of remove_headers_footers: is the line appended to cleaned
KeepLine(line, repeated_lines) ==
    /\ Strip(line, Whitespace) # <<>>
    /\ \/ Lower(Strip(line, Whitespace)) \notin repeated_lines
       \/ \E i \in 1..Len(CANONICAL_NAMES) :
              IsSubstring(Lower(CANONICAL_NAMES[i]),
                          Lower(Strip(line, Whitespace)))

\* remove_headers_footers(lines, repeated_lines)
RECURSIVE RemoveHeadersFooters(_, _)
RemoveHeadersFooters(lines, repeated_lines) ==
    IF lines = <<>> THEN <<>>
    ELSE (IF KeepLine(Head(lines), repeated_lines) THEN <<Head(lines)>> ELSE <<>>)
         \o RemoveHeadersFooters(Tail(lines), repeated_lines)

\* [0-9]
Digits == {"0", "1", "2", "3", "4", "5", "6", "7", "8", "9"}
\* the punctuation listed in [^a-zA-Z0-9\s.,;:'\"!?()-]
FilterPunct == {".", ",", ";", ":", "'", "\"", "!", "?", "(", ")", "-"}
\* [\u0900-\u097F], the class of DEVANAGARI_PATTERN
Devanagari == DevanagariLetters \cup DevanagariSigns

\* len(re.findall(r"[^a-zA-Z0-9\s.,;:'\"!?()-]", line))
SymbolCount(line) ==
    Cardinality({i \in 1..Len(line) :
        line[i] \notin AsciiLetters \cup Digits \cup Whitespace \cup FilterPunct})

\* len(re.findall(r"[a-zA-Z]", line))
LetterCount(line) == Cardinality({i \in 1..Len(line) : line[i] \in AsciiLetters})

\* DEVANAGARI_PATTERN.sub(" ", line): every run of Devanagari becomes one space
RECURSIVE SubDevanagari(_, _)
SubDevanagari(line, i) ==
    IF i > Len(line) THEN <<>>
    ELSE IF line[i] \notin Devanagari THEN <<line[i]>> \o SubDevanagari(line, i + 1)
    ELSE IF i > 1 /\ line[i - 1] \in Devanagari THEN SubDevanagari(line, i + 1)
    ELSE <<" ">> \o SubDevanagari(line, i + 1)

\* "symbol_ratio > limit or word_ratio < 0.4" is false, limit in hundredths
RatiosPass(line, limit) ==
    /\ ~(SymbolCount(line) * 100 > limit * Max(1, Len(line)))
    /\ ~(LetterCount(line) * 100 < 40 * Max(1, Len(line)))

\* remove_devanagari_and_gibberish
RECURSIVE RemoveDevanagariAndGibberish(_)
RemoveDevanagariAndGibberish(lines) ==
    IF lines = <<>> THEN <<>>
    ELSE (IF RatiosPass(SubDevanagari(Head(lines), 1), 25)
          THEN <<SubDevanagari(Head(lines), 1)>> ELSE <<>>)
         \o RemoveDevanagariAndGibberish(Tail(lines))

\* remove_non_english_garbage
RECURSIVE RemoveNonEnglishGarbage(_)
RemoveNonEnglishGarbage(lines) ==
    IF lines = <<>> THEN <<>>
    ELSE (IF RatiosPass(Head(lines), 30) THEN <<Head(lines)>> ELSE <<>>)
         \o RemoveNonEnglishGarbage(Tail(lines))

\* len(re.findall(r"[a-zA-Z]+", line)): the runs of letters
LetterRuns(line) ==
    Cardinality({i \in 1..Len(line) :
        /\ line[i] \in AsciiLetters
        /\ (i = 1 \/ line[i - 1] \notin AsciiLetters)})

\* len(re.sub(r"[^a-zA-Z0-9]", "", line))
CleanCharCount(line) ==
    Cardinality({i \in 1..Len(line) : line[i] \in AsciiLetters \cup Digits})

\* is_noise
IsNoiseHalf(line) ==
    IF LetterRuns(line) >= 3 THEN FALSE
    ELSE IF CleanCharCount(line) = 0 THEN TRUE
    ELSE CleanCharCount(line) * 100 < 50 * Max(Len(line), 1)

IsNoise(line) ==
    IF LetterRuns(line) >= 3 THEN FALSE
    ELSE IF CleanCharCount(line) = 0 THEN TRUE
    ELSE CleanCharCount(line) * 100 < 25 * Max(Len(line), 1)

\* [l for l in cleaned_lines if not is_noise(l)]
DropNoise(lines) ==
    LET NotNoise(l) == ~IsNoise(l)
    IN  SelectSeq(lines, NotNoise)

\* steps 1 and 2 of postprocess_text: the four filters in turn
FilterLines(lines, repeated_lines) ==
    DropNoise(RemoveNonEnglishGarbage(RemoveDevanagariAndGibberish(
        RemoveHeadersFooters(lines, repeated_lines))))

-----------------------------------------------------------------------------
(* text_cleaning: clean_text and postprocess_text *)

\* the ligature U+FB01, a single code point
FiLigature == "<fi>"

\* unicodedata.normalize("NFKC", text): the ligature decomposes into "f", "i";
\* the other code points of the model are unchanged by NFKC
RECURSIVE NFKC(_)
NFKC(text) ==
    IF text = <<>> THEN <<>>
    ELSE (IF Head(text) = FiLigature THEN <<"f", "i">> ELSE <<Head(text)>>)
         \o NFKC(Tail(text))

\* the loop over ligature_map: text.replace(ligature, letters)
RECURSIVE ReplaceLigatures(_)
ReplaceLigatures(text) ==
    IF text = <<>> THEN <<>>
    ELSE (IF Head(text) = FiLigature THEN <<"f", "i">> ELSE <<Head(text)>>)
         \o ReplaceLigatures(Tail(text))

\* the characters of the class [\^<>\*~...] met in the model
IntrusiveChars == {"^", "*"}

\* is text[i] inside a run of intrusive symbols with a \w on either side
InIntrusiveRun(text, i) ==
    \E a \in 2..i : \E b \in i..(Len(text) - 1) :
        /\ \A k \in a..b : text[k] \in IntrusiveChars
        /\ IsWordChar(text[a - 1])
        /\ IsWordChar(text[b + 1])

\* re.sub(r"(?<=\w)[\^<>\*~...]+(?=\w)", "", text)
RemoveIntrusive(text) ==
    LET kept == {i \in 1..Len(text) : ~InIntrusiveRun(text, i)}
        Nth(k) == CHOOSE i \in kept : Cardinality({j \in kept : j <= i}) = k
    IN  [k \in 1..Cardinality(kept) |-> text[Nth(k)]]

\* how many times "\b\w\s" matches in a row from position p (after p characters)
RECURSIVE SpacedUnits(_, _)
SpacedUnits(text, p) ==
    IF /\ p + 2 <= Len(text)
       /\ IsWordChar(text[p + 1])
       /\ IsSpace(text[p + 2])
       /\ Boundary(text, p)
    THEN 1 + SpacedUnits(text, p + 2)
    ELSE 0

\* m.group(0).replace(" ", "")
WithoutSpaces(str) ==
    LET NotSpace(c) == c # " "
    IN  SelectSeq(str, NotSpace)

\* re.sub(r"(?:\b\w\s){2,}", lambda m: m.group(0).replace(" ", ""), text)
\* from position p on
RECURSIVE FixSpacedLetters(_, _)
FixSpacedLetters(text, p) ==
    IF p >= Len(text) THEN <<>>
    ELSE IF SpacedUnits(text, p) >= 2
         THEN WithoutSpaces(SubSeq(text, p + 1, p + 2 * SpacedUnits(text, p)))
              \o FixSpacedLetters(text, p + 2 * SpacedUnits(text, p))
    ELSE <<text[p + 1]>> \o FixSpacedLetters(text, p + 1)

\* the end of the run of whitespace that starts after p characters
RECURSIVE SpaceRunEnd(_, _)
SpaceRunEnd(text, p) ==
    IF p < Len(text) /\ IsSpace(text[p + 1]) THEN SpaceRunEnd(text, p + 1) ELSE p

\* re.sub(r"-\s*\n\s*", "", text) from position p on
RECURSIVE RemoveHyphenation(_, _)
RemoveHyphenation(text, p) ==
    IF p >= Len(text) THEN <<>>
    ELSE IF /\ text[p + 1] = "-"
            /\ \E k \in (p + 2)..SpaceRunEnd(text, p + 1) : text[k] = "\n"
         THEN RemoveHyphenation(text, SpaceRunEnd(text, p + 1))
    ELSE <<text[p + 1]>> \o RemoveHyphenation(text, p + 1)

\* re.sub(r"\s+", " ", text) from position p on
RECURSIVE CollapseSpaces(_, _)
CollapseSpaces(text, p) ==
    IF p >= Len(text) THEN <<>>
    ELSE IF IsSpace(text[p + 1])
         THEN <<" ">> \o CollapseSpaces(text, SpaceRunEnd(text, p))
    ELSE <<text[p + 1]>> \o CollapseSpaces(text, p + 1)

\* the lines 163-183 of clean_text: the text handed to the sentence tokenizer
Normalized(text) ==
    Strip(CollapseSpaces(RemoveHyphenation(FixSpacedLetters(RemoveIntrusive(
        ReplaceLigatures(NFKC(text))), 0), 0), 0), Whitespace)

\* the places where nltk.sent_tokenize may end a sentence in a text whose
\* whitespace is single spaces: after ".", "!" or "?" followed by a space.
\* Which of them it takes is the tokenizer's decision (abbreviations, initials)
SentenceCuts(text) ==
    {i \in 1..(Len(text) - 1) : text[i] \in {".", "!", "?"} /\ text[i + 1] = " "}

\* nltk.sent_tokenize(text) ending sentences at the places cuts: the pieces
\* from position p on, without the space between them
RECURSIVE SentTokenize(_, _, _)
SentTokenize(text, cuts, p) ==
    IF p >= Len(text) THEN <<>>
    ELSE IF \E i \in cuts : i > p
         THEN <<SubSeq(text, p + 1, CHOOSE i \in cuts : i > p /\ \A j \in cuts : j > p => i <= j)>>
              \o SentTokenize(text, cuts,
                              (CHOOSE i \in cuts : i > p /\ \A j \in cuts : j > p => i <= j) + 1)
    ELSE <<SubSeq(text, p + 1, Len(text))>>

\* the end of the run of non-whitespace that starts after p characters
RECURSIVE WordEnd(_, _)
WordEnd(text, p) ==
    IF p < Len(text) /\ ~IsSpace(text[p + 1]) THEN WordEnd(text, p + 1) ELSE p

\* text.split() from position p on
RECURSIVE SplitWords(_, _)
SplitWords(text, p) ==
    IF p >= Len(text) THEN <<>>
    ELSE IF IsSpace(text[p + 1]) THEN SplitWords(text, p + 1)
    ELSE <<SubSeq(text, p + 1, WordEnd(text, p))>> \o SplitWords(text, WordEnd(text, p))

\* semantic_normalization(text, raw_text)
SemanticNormalization(text, raw_text, default_process) ==
    JoinWith([i \in 1..Len(SplitWords(text, 0)) |->
                 NormalizeSpelling(SplitWords(text, 0)[i], raw_text, default_process)],
             <<" ">>)

\* the end of the run of \w that starts after p characters
RECURSIVE WordCharsEnd(_, _)
WordCharsEnd(text, p) ==
    IF p < Len(text) /\ IsWordChar(text[p + 1]) THEN WordCharsEnd(text, p + 1) ELSE p

\* the end of one more "\s+\1" after q characters, \1 being word under
\* re.IGNORECASE (0: no match)
RepeatEnd(text, q, word) ==
    IF /\ SpaceRunEnd(text, q) > q
       /\ SpaceRunEnd(text, q) + Len(word) <= Len(text)
       /\ Lower(SubSeq(text, SpaceRunEnd(text, q) + 1, SpaceRunEnd(text, q) + Len(word)))
              = Lower(word)
    THEN SpaceRunEnd(text, q) + Len(word)
    ELSE 0

\* the end of the longest "(\s+\1){1,}\b" after q characters (0: no match)
RECURSIVE RepeatsEnd(_, _, _)
RepeatsEnd(text, q, word) ==
    IF RepeatEnd(text, q, word) = 0 THEN 0
    ELSE IF RepeatsEnd(text, RepeatEnd(text, q, word), word) # 0
         THEN RepeatsEnd(text, RepeatEnd(text, q, word), word)
    ELSE IF Boundary(text, RepeatEnd(text, q, word)) THEN RepeatEnd(text, q, word)
    ELSE 0

\* the end of the match of r"\b(\w+)(\s+\1){1,}\b" starting after p characters
\* (0: no match); (\w+) is the whole run of \w, a shorter one is not followed
\* by \s
DuplicateEnd(text, p) ==
    IF Boundary(text, p) /\ WordCharsEnd(text, p) > p
    THEN RepeatsEnd(text, WordCharsEnd(text, p), SubSeq(text, p + 1, WordCharsEnd(text, p)))
    ELSE 0

\* re.sub(r"\b(\w+)(\s+\1){1,}\b", r"\1", s, flags=re.IGNORECASE) from p on
RECURSIVE RemoveDuplicateWords(_, _)
RemoveDuplicateWords(text, p) ==
    IF p >= Len(text) THEN <<>>
    ELSE IF DuplicateEnd(text, p) # 0
         THEN SubSeq(text, p + 1, WordCharsEnd(text, p))
              \o RemoveDuplicateWords(text, DuplicateEnd(text, p))
    ELSE <<text[p + 1]>> \o RemoveDuplicateWords(text, p + 1)

\* str.upper() on one character
UpperChar(c) ==
    IF \E u \in DOMAIN UpperToLower : UpperToLower[u] = c
    THEN CHOOSE u \in DOMAIN UpperToLower : UpperToLower[u] = c
    ELSE c

\* s[0].upper() + s[1:] if len(s) > 1 else s
Capitalize(str) ==
    IF Len(str) > 1 THEN <<UpperChar(str[1])>> \o Tail(str) ELSE str

\* to_paragraphs(sentences, n=3)
RECURSIVE ToParagraphs(_)
ToParagraphs(sentences) ==
    IF Len(sentences) <= 3 THEN JoinWith(sentences, <<" ">>)
    ELSE JoinWith(SubSeq(sentences, 1, 3), <<" ">>) \o <<"\n", "\n">>
         \o ToParagraphs(SubSeq(sentences, 4, Len(sentences)))

\* the lines 189-195 of clean_text on one sentence
CleanSentence(sentence, raw_text, default_process) ==
    Capitalize(RemoveDuplicateWords(
        SemanticNormalization(sentence, raw_text, default_process), 0))

\* the lines 186-197 of clean_text on the normalized text
CleanSentences(text, sentences, raw_text, default_process) ==
    IF sentences = <<>> THEN text
    ELSE ToParagraphs([i \in 1..Len(sentences) |->
                          CleanSentence(sentences[i], raw_text, default_process)])

\* clean_text(text, raw_text), the tokenizer ending sentences at cuts
CleanText(text, raw_text, default_process, cuts) ==
    IF text = <<>> THEN <<>>
    ELSE CleanSentences(Normalized(text), SentTokenize(Normalized(text), cuts, 0),
                        raw_text, default_process)

\* words handed to normalize_spelling
N_pita == <<"p", "i", "t", "a">>
N_pittaa == <<"p", "i", "t", "t", "a", "a">>
N_Pittaa == <<"P", "i", "t", "t", "a", "a">>
N_pitha == <<"p", "i", "t", "h", "a">>
N_Pitta == <<"P", "i", "t", "t", "a">>
N_pitta_bang == <<"p", "i", "t", "t", "a", "!">>
N_bangs == <<"!", "!">>
N_xyz == <<"x", "y", "z">>
N_PITHA == <<"P", "I", "T", "H", "A">>
NormalizeWords == {N_PITHA, N_pita, N_pittaa, N_Pittaa, N_pitha, N_Pitta, N_pitta_bang,
                   N_bangs, N_xyz}
\* raw_text arguments: absent, empty, with and without the term
R_pitta == <<"p", "i", "t", "t", "a">>
R_PITTA == <<"a", " ", "P", "I", "T", "T", "A", " ", "b">>
R_vata == <<"v", "a", "t", "a">>
RawTexts == {None, <<>>, R_pitta, R_PITTA, R_vata}

\* texts handed to extract_ayurveda_entities
E_example == <<"P", "i", "t", "t", "a", " ", "d", "o", "s", "h", "a", " ", "c", "a", "u", "s", "e", "s", " ", "i", "m", "b", "a", "l", "a", "n", "c", "e">>
E_inside == <<"s", "p", "i", "t", "t", "a">>
E_caps == <<"V", "A", "T", "A">>
E_none == <<"p", "i", "t", " ", "t", "a">>
EntityTexts == {E_example, E_inside, E_caps, E_none, <<>>}

\* lines handed to remove_headers_footers, and repeated_lines sets
H_page == <<" ", "P", "a", "g", "e", " ", "1", " ">>
H_term == <<"P", "i", "t", "t", "a", " ", "x">>
H_body == <<"b", "o", "d", "y">>
H_blank == <<" ", " ">>
HeaderLines == {H_page, H_term, H_body, H_blank, <<>>}
LineLists == UNION {[1..n -> HeaderLines] : n \in 0..MaxLines}
RepeatedSets == {{}, {<<"p", "a", "g", "e", " ", "1">>, <<"p", "i", "t", "t", "a", " ", "x">>}, {H_page, H_term}}

\* the calls of the model: a function of text_cleaning and its arguments
NormalizeCalls ==
    {[op |-> "call", fn |-> "normalize_spelling", word |-> word,
      raw_text |-> raw_text, default_process |-> default_process] :
        word \in NormalizeWords, raw_text \in RawTexts, default_process \in BOOLEAN}
EntityCalls ==
    {[op |-> "call", fn |-> "extract_ayurveda_entities", text |-> text] :
        text \in EntityTexts}
HeaderCalls ==
    {[op |-> "call", fn |-> "remove_headers_footers", lines |-> lines,
      repeated_lines |-> repeated_lines] :
        lines \in LineLists, repeated_lines \in RepeatedSets}

\* the module is loaded and one call is about to be made; the corrector is not
\* used by these functions
CleanInit ==
    /\ cleaner = Idle
    /\ startup = Idle
    /\ workers = Idle
    /\ CheckerInit
    /\ vocab = {W_vata}
    /\ batch = Idle
    /\ doc = Idle
    /\ clean \in NormalizeCalls \cup EntityCalls \cup HeaderCalls

\* the call normalize_spelling(word, raw_text) returns
NormalizeSpellingCall ==
    /\ clean.op = "call"
    /\ clean.fn = "normalize_spelling"
    /\ clean' = [op |-> "normalize_spelling", word |-> clean.word,
                 raw_text |-> clean.raw_text,
                 default_process |-> clean.default_process,
                 ret |-> NormalizeSpelling(clean.word, clean.raw_text,
                                           clean.default_process)]
    /\ UNCHANGED <<checkerVars, batch, doc, cleaner, startup, workers>>

\* the call extract_ayurveda_entities(text) returns; list(set) in any order
ExtractEntitiesCall ==
    /\ clean.op = "call"
    /\ clean.fn = "extract_ayurveda_entities"
    /\ \E ret \in Perms(EntitiesFound(clean.text)) :
           clean' = [op |-> "extract_ayurveda_entities", text |-> clean.text,
                     ret |-> ret]
    /\ UNCHANGED <<checkerVars, batch, doc, cleaner, startup, workers>>

\* the call remove_headers_footers(lines, repeated_lines) returns
RemoveHeadersFootersCall ==
    /\ clean.op = "call"
    /\ clean.fn = "remove_headers_footers"
    /\ clean' = [op |-> "remove_headers_footers", lines |-> clean.lines,
                 repeated_lines |-> clean.repeated_lines,
                 ret |-> RemoveHeadersFooters(clean.lines, clean.repeated_lines)]
    /\ UNCHANGED <<checkerVars, batch, doc, cleaner, startup, workers>>

NextClean ==
    \/ NormalizeSpellingCall
    \/ ExtractEntitiesCall
    \/ RemoveHeadersFootersCall

SpecClean == CleanInit /\ [][NextClean]_vars

-----------------------------------------------------------------------------
(* text_cleaning: calls of clean_text and postprocess_text, and correct_text on
   the same inputs *)

\* text.split("\n") from position p on
RECURSIVE SplitLines(_, _)
SplitLines(text, p) ==
    IF \E i \in (p + 1)..Len(text) : text[i] = "\n"
    THEN <<SubSeq(text, p + 1,
                  (CHOOSE i \in (p + 1)..Len(text) :
                       text[i] = "\n" /\ \A j \in (p + 1)..i : text[j] = "\n" => j = i) - 1)>>
         \o SplitLines(text, CHOOSE i \in (p + 1)..Len(text) :
                                 text[i] = "\n" /\ \A j \in (p + 1)..i : text[j] = "\n" => j = i)
    ELSE <<SubSeq(text, p + 1, Len(text))>>

\* the lines 218-226 of postprocess_text: cleaned_lines
CleanedLines(text, repeated_lines) == FilterLines(SplitLines(text, 0), repeated_lines)

\* " ".join(cleaned_lines), the text handed to clean_text
TextCleaned(text, repeated_lines) == JoinWith(CleanedLines(text, repeated_lines), <<" ">>)

\* postprocess_text(text, repeated_lines, raw_text), the tokenizer ending
\* sentences at cuts
PostprocessText(text, repeated_lines, raw_text, default_process, cuts) ==
    IF Strip(text, Whitespace) = <<>> THEN <<>>
    ELSE CleanText(TextCleaned(text, repeated_lines), raw_text, default_process, cuts)

\* texts handed to clean_text
T_spaced == <<"a", " ", " ", "b", " ", " ", "c">>
T_hyphen == <<"a", "-", "\n", "*", "b">>
T_dup == <<"g", "o", " ", "G", "o", " ", "o", "n">>
T_sentences == <<"h", "i", ".", " ", "y", "o">>
T_terms == <<"p", "i", "t", "h", "a", ",", " ", "p", "i", "t", "t", "a", "!", " ", "x">>
T_ligature == <<"<fi>", "t">>
T_one == <<"a">>
T_five == <<"a", ".", " ", "b", ".", " ", "c", ".", " ", "d", ".", " ", "e">>
T_punct == <<".", ".">>
T_devanagari == <<"ka", "-aa">>
CleanTexts == {T_spaced, T_hyphen, T_dup, T_sentences, T_terms, T_ligature,
               T_one, T_five, T_punct, T_devanagari, <<>>}

\* lines of the pages handed to postprocess_text
F_words == <<"a", " ", "b", " ", "c">>
F_dev == <<"a", "b", " ", "ka", " ", "c", "d">>
F_sym == <<"#", "*", "a">>
PostLines == {F_words, F_dev, F_sym, T_devanagari, H_page, H_blank}
PostTexts == {JoinWith(lines, <<"\n">>) :
                 lines \in UNION {[1..n -> PostLines] : n \in 0..MaxLines}}
PostRepeatedSets == {{}, {<<"p", "a", "g", "e", " ", "1">>}}

\* texts handed to correct_text
T_unknown == <<"v", "a", "x", "y", "z">>
T_mixed == T_unknown \o <<",", " ", "(">> \o W_vatta \o <<")", " ", "g", "o", "!">>
T_exact == W_vata \o <<" ">> \o W_vaatta
CorrectTexts == {<<>>, T_punct, T_devanagari, T_unknown, T_mixed, Text_two_words, T_exact}

CleanTextCalls ==
    {[op |-> "call", fn |-> "clean_text", text |-> text, raw_text |-> raw_text,
      default_process |-> default_process] :
        text \in CleanTexts, raw_text \in {None, R_vata}, default_process \in BOOLEAN}
PostprocessCalls ==
    {[op |-> "call", fn |-> "postprocess_text", text |-> text,
      repeated_lines |-> repeated_lines, raw_text |-> None,
      default_process |-> FALSE] :
        text \in PostTexts, repeated_lines \in PostRepeatedSets}
CorrectTextCalls ==
    {[op |-> "call", fn |-> "correct_text", text |-> text,
      threshold |-> DefaultThreshold] : text \in CorrectTexts}

\* text_cleaning is loaded and a corrector is built; one call is about to be
\* made
PostInit ==
    /\ cleaner = Idle
    /\ startup = Idle
    /\ workers = Idle
    /\ CheckerInit
    /\ vocab = {W_vata, W_vaatta}
    /\ vocab_iter = <<W_vata, W_vaatta>>
    /\ doc = Idle
    /\ \/ clean \in CleanTextCalls \cup PostprocessCalls /\ batch = Idle
       \/ clean = Idle /\ batch \in CorrectTextCalls

\* the call clean_text(text, raw_text) returns
CleanTextCall ==
    /\ clean.op = "call"
    /\ clean.fn = "clean_text"
    /\ \E cuts \in SUBSET SentenceCuts(Normalized(clean.text)) :
           clean' = [op |-> "clean_text", text |-> clean.text,
                     raw_text |-> clean.raw_text,
                     default_process |-> clean.default_process,
                     ret |-> CleanText(clean.text, clean.raw_text,
                                       clean.default_process, cuts)]
    /\ UNCHANGED <<checkerVars, batch, doc, cleaner, startup, workers>>

\* the call postprocess_text(text, repeated_lines, raw_text) returns; lines and
\* cleaned_lines are its local variables before and after the filters
PostprocessTextCall ==
    /\ clean.op = "call"
    /\ clean.fn = "postprocess_text"
    /\ \E cuts \in SUBSET SentenceCuts(Normalized(TextCleaned(clean.text,
                                                              clean.repeated_lines))) :
           clean' = [op |-> "postprocess_text", text |-> clean.text,
                     repeated_lines |-> clean.repeated_lines,
                     lines |-> SplitLines(clean.text, 0),
                     cleaned_lines |-> CleanedLines(clean.text, clean.repeated_lines),
                     ret |-> PostprocessText(clean.text, clean.repeated_lines,
                                             clean.raw_text, clean.default_process,
                                             cuts)]
    /\ UNCHANGED <<checkerVars, batch, doc, cleaner, startup, workers>>

\* the call correct_text(text, threshold) returns
CorrectTextCall ==
    /\ batch.op = "call"
    /\ batch.fn = "correct_text"
    /\ \E r \in {CorrectText(cache, batch.text, batch.threshold)} :
           /\ cache' = r.cache
           /\ batch' = [op |-> "correct_text", text |-> batch.text,
                        threshold |-> batch.threshold, ret |-> r.ret]
    /\ last' = [op |-> "correct_text", value |-> None]
    /\ UNCHANGED <<vocab, vocab_iter, vocab_lower, trigram_index,
                   word_frequencies, max_cache_size, doc, clean, cleaner, startup, workers>>

NextPost ==
    \/ CleanTextCall
    \/ PostprocessTextCall
    \/ CorrectTextCall

SpecPost == PostInit /\ [][NextPost]_vars

-----------------------------------------------------------------------------
(* A corrector with a fixed vocabulary and any max_cache_size *)

CacheInit ==
    /\ cleaner = Idle
    /\ startup = Idle
    /\ workers = Idle
    /\ vocab = {W_vata, W_vaatta}
    /\ vocab_iter = <<W_vata, W_vaatta>>
    /\ vocab_lower = {Lower(w) : w \in vocab}
    /\ word_frequencies = [w \in vocab |-> 1]
    /\ trigram_index = BuildTrigramIndex(vocab)
    /\ cache = <<>>
    /\ max_cache_size \in CacheSizes
    /\ last = [op |-> "init", value |-> None]
    /\ batch = Idle
    /\ doc = Idle
    /\ clean = Idle

\* calls with the default threshold and max_candidates
NextCache == CorrectWordCall(CacheWords, {DefaultThreshold}, {DefaultMaxCandidates})

SpecCache == CacheInit /\ [][NextCache]_vars

\* batches of texts, between single calls that leave entries in the cache
NextBatch ==
    \/ BatchCorrectCall
    \/ CorrectWordCall({W_vatta_dot}, {DefaultThreshold}, MaxCandidateValues)

\* the corrector with the largest cache
BatchInit == CacheInit /\ max_cache_size = MaxCacheSize

SpecBatch == BatchInit /\ [][NextBatch]_vars

-----------------------------------------------------------------------------
(* A corrector loaded from a vocabulary file with frequencies *)

\* __init__ with a vocab_file: load_vocabulary reads each term with its count
FuzzyInit ==
    /\ cleaner = Idle
    /\ startup = Idle
    /\ workers = Idle
    /\ vocab \in (SUBSET FuzzyUniverse) \ {{}}
    /\ vocab_iter \in Perms(vocab)
    /\ vocab_lower = {Lower(w) : w \in vocab}
    /\ word_frequencies \in [vocab -> FileFrequencies]
    /\ trigram_index = BuildTrigramIndex(vocab)
    /\ cache = <<>>
    /\ max_cache_size = MaxCacheSize
    /\ last = [op |-> "init", value |-> None]
    /\ batch = Idle
    /\ doc = Idle
    /\ clean = Idle

NextFuzzy == CorrectWordCall(FuzzyWords, {DefaultThreshold}, {DefaultMaxCandidates})

SpecFuzzy == FuzzyInit /\ [][NextFuzzy]_vars

-----------------------------------------------------------------------------
(* integrated_cleaner.py: IntegratedTextCleaner *)

\* the letters of the class of char_spacing met in the model: [a-zA-Z] and
\* the lower-case IAST letters
SpacingLetters == AsciiLetters \cup {"a-"}

\* does char_spacing, \b(letter)\s+(?=letter\s), match after p characters
CharSpacingMatch(text, p) ==
    /\ p + 2 <= Len(text)
    /\ Boundary(text, p)
    /\ text[p + 1] \in SpacingLetters
    /\ IsSpace(text[p + 2])
    /\ SpaceRunEnd(text, p + 1) + 2 <= Len(text)
    /\ text[SpaceRunEnd(text, p + 1) + 1] \in SpacingLetters
    /\ IsSpace(text[SpaceRunEnd(text, p + 1) + 2])

\* char_spacing.sub(lambda m: m.group(0).replace(' ', ''), text) from
\* position p on
RECURSIVE FixCharSpacing(_, _)
FixCharSpacing(text, p) ==
    IF p >= Len(text) THEN <<>>
    ELSE IF CharSpacingMatch(text, p)
         THEN WithoutSpaces(SubSeq(text, p + 1, SpaceRunEnd(text, p + 1)))
              \o FixCharSpacing(text, SpaceRunEnd(text, p + 1))
    ELSE <<text[p + 1]>> \o FixCharSpacing(text, p + 1)

\* _fix_ocr_artifacts: the spaced letters, then the ligatures
FixOcrArtifacts(text) == ReplaceLigatures(FixCharSpacing(text, 0))

\* the end of the run of digits that starts after p characters
RECURSIVE DigitRunEnd(_, _)
DigitRunEnd(text, p) ==
    IF p < Len(text) /\ text[p + 1] \in Digits THEN DigitRunEnd(text, p + 1) ELSE p

\* does str stand in text after p characters
IsAt(text, p, str) ==
    /\ p + Len(str) <= Len(text)
    /\ SubSeq(text, p + 1, p + Len(str)) = str

PageWord == <<"P", "a", "g", "e">>

\* the end of the match of \b\d+\s*\|\s*Page\b after p characters, p when
\* there is none
NumberedPageEnd(text, p) ==
    LET d == DigitRunEnd(text, p)
        b == SpaceRunEnd(text, d)
        g == SpaceRunEnd(text, b + 1)
    IN  IF /\ d > p
           /\ Boundary(text, p)
           /\ b < Len(text)
           /\ text[b + 1] = "|"
           /\ IsAt(text, g, PageWord)
           /\ Boundary(text, g + Len(PageWord))
        THEN g + Len(PageWord)
        ELSE p

\* the end of the match of \[Page\s+\d+\] after p characters, p when there is
\* none
BracketPageEnd(text, p) ==
    LET w == p + 1 + Len(PageWord)
        n == SpaceRunEnd(text, w)
        d == DigitRunEnd(text, n)
    IN  IF /\ IsAt(text, p, <<"[">> \o PageWord)
           /\ n > w
           /\ d > n
           /\ d < Len(text)
           /\ text[d + 1] = "]"
        THEN d + 1
        ELSE p

\* the end of the run of [\d\s\|] that starts after p characters
RECURSIVE BarRunEnd(_, _)
BarRunEnd(text, p) ==
    IF p < Len(text) /\ text[p + 1] \in Digits \cup Whitespace \cup {"|"}
    THEN BarRunEnd(text, p + 1)
    ELSE p

\* the ends at which "$" of a MULTILINE pattern lets a match that starts after
\* p characters stop within the run of [\d\s\|]
BarLineEnds(text, p) ==
    {e \in (p + 1)..BarRunEnd(text, p) : e = Len(text) \/ text[e + 1] = "\n"}

\* the end of the match of ^[\d\s\|]+$ after p characters, p when there is none
BarLineEnd(text, p) ==
    IF /\ (p = 0 \/ text[p] = "\n")
       /\ BarLineEnds(text, p) # {}
    THEN CHOOSE e \in BarLineEnds(text, p) : \A f \in BarLineEnds(text, p) : f <= e
    ELSE p

\* the end of the match of page_artifacts after p characters: the first of the
\* three alternatives that matches
ArtifactEnd(text, p) ==
    IF NumberedPageEnd(text, p) > p THEN NumberedPageEnd(text, p)
    ELSE IF BracketPageEnd(text, p) > p THEN BracketPageEnd(text, p)
    ELSE BarLineEnd(text, p)

\* page_artifacts.sub('', text) from position p on
RECURSIVE RemovePageArtifacts(_, _)
RemovePageArtifacts(text, p) ==
    IF p >= Len(text) THEN <<>>
    ELSE IF ArtifactEnd(text, p) > p
         THEN RemovePageArtifacts(text, ArtifactEnd(text, p))
    ELSE <<text[p + 1]>> \o RemovePageArtifacts(text, p + 1)

\* does "-\s*\n\s*" and then a \w follow the word that ends after e characters
BrokenAt(text, e) ==
    /\ e < Len(text)
    /\ text[e + 1] = "-"
    /\ \E k \in (e + 2)..SpaceRunEnd(text, e + 1) : text[k] = "\n"
    /\ SpaceRunEnd(text, e + 1) < Len(text)
    /\ IsWordChar(text[SpaceRunEnd(text, e + 1) + 1])

\* broken_words.sub(r'\1\2', text) from position p on, the pattern being
\* (\w+)-\s*\n\s*(\w+)
RECURSIVE FixBrokenWords(_, _)
FixBrokenWords(text, p) ==
    IF p >= Len(text) THEN <<>>
    ELSE IF IsWordChar(text[p + 1]) /\ BrokenAt(text, WordCharsEnd(text, p))
         THEN SubSeq(text, p + 1, WordCharsEnd(text, p))
              \o SubSeq(text, SpaceRunEnd(text, WordCharsEnd(text, p) + 1) + 1,
                        WordCharsEnd(text, SpaceRunEnd(text, WordCharsEnd(text, p) + 1)))
              \o FixBrokenWords(text,
                     WordCharsEnd(text, SpaceRunEnd(text, WordCharsEnd(text, p) + 1)))
    ELSE <<text[p + 1]>> \o FixBrokenWords(text, p + 1)

\* the characters of word.lower().strip('.,;:!?()')
EntityStripChars == {".", ",", ";", ":", "!", "?", "(", ")"}

\* how often _preserve_sanskrit_terms adds one to stats['sanskrit_preserved']
PreservedCount(text, sanskrit_vocab, ayurveda_entities) ==
    Cardinality({i \in 1..Len(SplitWords(text, 0)) :
        Strip(Lower(SplitWords(text, 0)[i]), EntityStripChars)
            \in sanskrit_vocab \cup ayurveda_entities})

\* _preserve_sanskrit_terms: every word is appended, known or not, and the
\* words are joined with one space
PreserveSanskritTerms(text) == JoinWith(SplitWords(text, 0), <<" ">>)

\* the test of _remove_repeated_lines on one line
KeepIntegratedLine(line, repeated_lines, ayurveda_entities) ==
    \/ Lower(Strip(line, Whitespace)) \notin repeated_lines
    \/ \E term \in ayurveda_entities :
           IsSubstring(term, Lower(Strip(line, Whitespace)))

\* _remove_repeated_lines(text, repeated_lines)
RemoveRepeatedLines(text, repeated_lines, ayurveda_entities) ==
    LET Keep(line) == KeepIntegratedLine(line, repeated_lines, ayurveda_entities)
    IN  JoinWith(SelectSeq(SplitLines(text, 0), Keep), <<"\n">>)

\* the length below which clean_text skips a text
MinTextLength == 10

NoMetadata == [kind |-> "None"]
EmptyMetadata == [kind |-> "dict"]

\* steps 1 to 5 of clean_text
OcrCleaned(self, text) ==
    FixBrokenWords(
        RemovePageArtifacts(
            NFKC(SubDevanagari(IF self.config.enable_ocr_fix
                               THEN FixOcrArtifacts(text) ELSE text, 1)), 0), 0)

\* step 6
EntitiesPreserved(self, text) ==
    IF self.config.preserve_entities THEN PreserveSanskritTerms(text) ELSE text

\* step 7
WithoutRepeated(self, text, metadata) ==
    IF "repeated_lines" \in DOMAIN metadata
    THEN RemoveRepeatedLines(text, metadata.repeated_lines, self.ayurveda_entities)
    ELSE text

\* the text clean_text returns for a text that is not skipped
IntegratedCleaned(self, text, metadata) ==
    Strip(CollapseSpaces(
              WithoutRepeated(self, EntitiesPreserved(self, OcrCleaned(self, text)),
                              metadata), 0),
          Whitespace)

\* self.stats after clean_text on a text that is not skipped
StatsAfter(self, text) ==
    [total_processed |-> self.stats.total_processed + 1,
     ocr_fixes |-> self.stats.ocr_fixes + (IF self.config.enable_ocr_fix THEN 1 ELSE 0),
     sanskrit_preserved |->
         self.stats.sanskrit_preserved
         + (IF self.config.preserve_entities
            THEN PreservedCount(OcrCleaned(self, text), self.sanskrit_vocab,
                                self.ayurveda_entities)
            ELSE 0),
     junk_removed |-> self.stats.junk_removed]

\* clean_text(text, metadata) on the instance self: the instance after the
\* call and the pair returned
IntegratedCleanText(self, text, metadata) ==
    IF text = <<>> \/ Len(Strip(text, Whitespace)) < MinTextLength
    THEN [self |-> self, ret |-> << <<>>, [skipped |-> "too_short"] >>]
    ELSE [self |-> [self EXCEPT !.stats = StatsAfter(self, text)],
          ret |-> <<IntegratedCleaned(self, text, metadata),
                    [steps |-> IF self.config.enable_ocr_fix
                               THEN <<"ocr_fixed">> ELSE <<>>]>>]

\* the texts handed to the cleaner
I_short == <<"s", "h", "o", "r", "t">>
I_padded == <<" ", " ", " ", " ", "a", "b", " ", " ", " ", " ", " ", " ">>
I_spaced == <<"A", " ", "y", " ", "u", " ", "r", " ", "v", " ", "e", " ", "d", " ", "a">>
I_numbered == <<"v", "a", "t", "a", " ", "1", "2", " ", "|", " ", "P", "a", "g", "e", "\n", "b", "o", "d", "y">>
I_bracket == <<"[", "P", "a", "g", "e", " ", "3", "]", " ", "p", "i", "t", "t", "a", " ", "t", "e", "x", "t">>
I_lines == <<"H", "d", "\n", "v", "a", "t", "a", " ", "d", "o", "s", "h", "a", "\n", "H", "d">>
I_broken == <<"b", "r", "o", "-", "\n", "k", "e", "n", " ", "w", "o", "r", "d", "s">>
I_bars == <<"1", " ", "2", " ", "|", "\n", "s", "o", "m", "e", " ", "t", "e", "x", "t">>
I_plain == <<"H", "d", "\n", "s", "o", "m", "e", " ", "t", "e", "x", "t", "\n", "H", "d">>
IntegratedTexts == {<<>>, T_devanagari, I_short, I_padded, I_spaced, I_numbered,
                    I_bracket, I_lines, I_broken, I_bars, I_plain}
\* the metadata: None, a dictionary without and with 'repeated_lines'
I_hd == <<"h", "d">>
Metadatas == {NoMetadata, EmptyMetadata,
              [kind |-> "dict", repeated_lines |-> {}],
              [kind |-> "dict", repeated_lines |-> {I_hd}]}
\* the sets loaded by __init__: empty when the file is not there
SanskritVocabs == {{}, {W_vata}}
AyurvedaEntities == {{}, {Lower(CANONICAL_NAMES[i]) : i \in 1..Len(CANONICAL_NAMES)}}
\* the config: _default_config enables both steps, a caller's config need not
Configs == [enable_ocr_fix : BOOLEAN, preserve_entities : BOOLEAN]

\* __init__ has run: the sets are loaded and the stats are zero; one call of
\* clean_text is about to be made
IntegratedInit ==
    /\ CheckerInit
    /\ vocab = {W_vata}
    /\ batch = Idle
    /\ doc = Idle
    /\ clean = Idle
    /\ startup = Idle
    /\ workers = Idle
    /\ cleaner \in [config : Configs,
                    sanskrit_vocab : SanskritVocabs,
                    ayurveda_entities : AyurvedaEntities,
                    stats : {[total_processed |-> 0, ocr_fixes |-> 0,
                              sanskrit_preserved |-> 0, junk_removed |-> 0]},
                    call : [op : {"call"}, text : IntegratedTexts,
                            metadata : Metadatas]]

\* the call clean_text(text, metadata) returns
IntegratedCleanTextCall ==
    /\ cleaner.call.op = "call"
    /\ \E r \in {IntegratedCleanText([f \in DOMAIN cleaner \ {"call"} |-> cleaner[f]],
                                     cleaner.call.text, cleaner.call.metadata)} :
           cleaner' = [config |-> r.self.config,
                       sanskrit_vocab |-> r.self.sanskrit_vocab,
                       ayurveda_entities |-> r.self.ayurveda_entities,
                       stats |-> r.self.stats,
                       call |-> [op |-> "clean_text", text |-> cleaner.call.text,
                                 metadata |-> cleaner.call.metadata, ret |-> r.ret]]
    /\ UNCHANGED <<checkerVars, batch, doc, clean, startup, workers>>

NextIntegrated == IntegratedCleanTextCall

SpecIntegrated == IntegratedInit /\ [][NextIntegrated]_vars

-----------------------------------------------------------------------------
(* Startup: the files the three modules read when they are initialized *)

\* base_vocab of initialize_default_vocabulary, one of its terms
W_vaata == <<"v", "a-", "t", "a">>
BaseVocab == {W_vaata}

\* expanded_vocab: each word, its lower case, and both without diacritics
ExpandedVocab(base_vocab) ==
    UNION {{word, Lower(word), RemoveDiacritics(word), Lower(RemoveDiacritics(word))} :
               word \in base_vocab}

\* the argument vocab_file of SanskritSpellChecker: none, the name of a file
\* that is not there, or a file that is there: a .txt of "word TAB count" lines,
\* a .txt with a count that is no integer, a .json with 'vocab' and
\* 'frequencies', a .json that is no JSON, a .json object without 'vocab', a
\* file of another suffix
VocabFiles == {"None", "missing", "txt", "txt_bad_count", "json", "json_bad",
               "json_no_vocab", "other_suffix"}
\* the vocabulary files on which load_vocabulary raises
RaisingVocabFiles == {"txt_bad_count", "json_bad"}
\* the states of final_language_dataset.csv and of ayurveda_terms.json
FileStates == {"missing", "ok", "malformed"}

\* the words and counts a readable vocabulary file holds
FileVocab == {W_vata, W_vaatta}
FileCounts == (W_vata :> 2) @@ (W_vaatta :> 1)

\* self.vocab after __init__ on vocab_file (when it does not raise)
LoadedVocab(vocab_file) ==
    IF vocab_file \in {"None", "missing"} THEN ExpandedVocab(BaseVocab)
    ELSE IF vocab_file \in {"txt", "json"} THEN FileVocab
    ELSE {}

\* self.word_frequencies after __init__ on vocab_file
LoadedFrequencies(vocab_file) ==
    IF vocab_file \in {"None", "missing"} THEN [w \in ExpandedVocab(BaseVocab) |-> 1]
    ELSE IF vocab_file \in {"txt", "json"} THEN FileCounts
    ELSE <<>>

\* an order of iteration of the set v
SomeOrder(v) == CHOOSE order \in Perms(v) : TRUE

\* nothing is constructed; the files are in any of their states
StartupInit ==
    /\ vocab = {}
    /\ vocab_iter = <<>>
    /\ vocab_lower = {}
    /\ trigram_index = <<>>
    /\ word_frequencies = <<>>
    /\ cache = <<>>
    /\ max_cache_size = MaxCacheSize
    /\ last = [op |-> "init", value |-> None]
    /\ batch = Idle
    /\ doc = Idle
    /\ clean = Idle
    /\ cleaner = Idle
    /\ workers = Idle
    /\ startup \in [vocab_file : VocabFiles, csv : FileStates, terms_json : FileStates,
                    checker : {"none"}, text_cleaning : {"none"},
                    SANSKRIT_VOCAB : {{}}, integrated : {"none"}]

\* SanskritSpellChecker(vocab_file): load_vocabulary when the file is named and
\* exists, initialize_default_vocabulary otherwise; then _build_trigram_index
NewSpellChecker ==
    /\ startup.checker = "none"
    /\ IF startup.vocab_file \in RaisingVocabFiles
       THEN /\ startup' = [startup EXCEPT !.checker = "error"]
            /\ UNCHANGED <<vocab, vocab_iter, vocab_lower, trigram_index,
                           word_frequencies>>
       ELSE /\ startup' = [startup EXCEPT !.checker = "ready"]
            /\ vocab' = LoadedVocab(startup.vocab_file)
            /\ vocab_iter' = SomeOrder(LoadedVocab(startup.vocab_file))
            /\ vocab_lower' = {Lower(w) : w \in LoadedVocab(startup.vocab_file)}
            /\ word_frequencies' = LoadedFrequencies(startup.vocab_file)
            /\ trigram_index' = BuildTrigramIndex(LoadedVocab(startup.vocab_file))
    /\ UNCHANGED <<cache, max_cache_size, last, batch, doc, clean, cleaner, workers>>

\* load_sanskrit_vocab() of text_cleaning: the set of the file, the empty set
\* when the file is not there
LoadSanskritVocab(csv) == IF csv = "ok" THEN {W_vata} ELSE {}

\* import text_cleaning: open("resources/ayurveda_terms.json") and json.load
\* raise on a missing or malformed file; pd.read_csv and the column lookup
\* raise on a malformed csv, a missing csv gives the empty set
ImportTextCleaning ==
    /\ startup.text_cleaning = "none"
    /\ IF startup.terms_json # "ok" \/ startup.csv = "malformed"
       THEN startup' = [startup EXCEPT !.text_cleaning = "error"]
       ELSE startup' = [startup EXCEPT !.text_cleaning = "imported",
                                       !.SANSKRIT_VOCAB = LoadSanskritVocab(startup.csv)]
    /\ UNCHANGED <<checkerVars, batch, doc, clean, cleaner, workers>>

\* _load_ayurveda_entities: the lower-cased keys, the empty set when the file
\* is not there
LoadAyurvedaEntities(terms_json) ==
    IF terms_json = "ok"
    THEN {Lower(CANONICAL_NAMES[i]) : i \in 1..Len(CANONICAL_NAMES)}
    ELSE {}

\* IntegratedTextCleaner(): _load_sanskrit_vocab, _load_ayurveda_entities, the
\* classifier (not used by clean_text), the patterns, the stats
NewIntegratedTextCleaner ==
    /\ startup.integrated = "none"
    /\ IF startup.csv = "malformed" \/ startup.terms_json = "malformed"
       THEN /\ startup' = [startup EXCEPT !.integrated = "error"]
            /\ UNCHANGED cleaner
       ELSE /\ startup' = [startup EXCEPT !.integrated = "ready"]
            /\ cleaner' = [config |-> [enable_ocr_fix |-> TRUE,
                                       preserve_entities |-> TRUE],
                           sanskrit_vocab |-> LoadSanskritVocab(startup.csv),
                           ayurveda_entities |-> LoadAyurvedaEntities(startup.terms_json),
                           stats |-> [total_processed |-> 0, ocr_fixes |-> 0,
                                      sanskrit_preserved |-> 0, junk_removed |-> 0],
                           call |-> [op |-> "init"]]
    /\ UNCHANGED <<checkerVars, batch, doc, clean, workers>>

\* the corrector, once constructed, is used
StartupCorrectWord ==
    /\ startup.checker = "ready"
    /\ CorrectWordCall({W_vatta}, {DefaultThreshold}, {DefaultMaxCandidates})

\* the cleaner, once constructed, is used
StartupCleanText ==
    /\ startup.integrated = "ready"
    /\ cleaner.call.op = "init"
    /\ \E text \in {I_lines, I_short} :
       \E r \in {IntegratedCleanText([f \in DOMAIN cleaner \ {"call"} |-> cleaner[f]],
                                     text, NoMetadata)} :
           cleaner' = [config |-> r.self.config,
                       sanskrit_vocab |-> r.self.sanskrit_vocab,
                       ayurveda_entities |-> r.self.ayurveda_entities,
                       stats |-> r.self.stats,
                       call |-> [op |-> "clean_text", text |-> text,
                                 metadata |-> NoMetadata, ret |-> r.ret]]
    /\ UNCHANGED <<checkerVars, batch, doc, clean, startup, workers>>

NextStartup ==
    \/ NewSpellChecker
    \/ ImportTextCleaning
    \/ NewIntegratedTextCleaner
    \/ StartupCorrectWord
    \/ StartupCleanText

SpecStartup == StartupInit /\ [][NextStartup]_vars

-----------------------------------------------------------------------------
(* A corrector whose vocabulary grows by add_words with frequencies *)

\* the counts a caller's frequencies dict holds
AddCounts == {0, 3}

NextAdd == AddWordsCall(AddCounts)

SpecAdd == Init /\ [][NextAdd]_vars

-----------------------------------------------------------------------------
(* A corrector whose vocabulary holds more terms near a word than
   correct_word shortlists *)

\* the default max_candidates of _get_candidates_fast
FastDefaultMaxCandidates == 50

\* terms sharing the trigrams "#va", "vat", "att" with "vatta" and scoring
\* below the default threshold against it
DecoyLetters == <<"b", "c", "d", "e", "f", "g", "h", "i", "j", "k">>
Decoy(x) == <<"v", "a", "t", "t", x, x, x>>
Decoys == {Decoy(DecoyLetters[i]) : i \in 1..Len(DecoyLetters)}

\* the vocabulary file: "vātta" and some of the decoys, in the order of the file
ShortlistOrder == <<W_vaatta>> \o [i \in 1..Len(DecoyLetters) |-> Decoy(DecoyLetters[i])]

ShortlistInit ==
    /\ \E chosen \in SUBSET Decoys :
           /\ vocab = {W_vaatta} \cup chosen
           /\ vocab_iter = SelectSeq(ShortlistOrder, LAMBDA w : w = W_vaatta \/ w \in chosen)
    /\ vocab_lower = {Lower(w) : w \in vocab}
    /\ word_frequencies = [w \in vocab |-> 1]
    /\ trigram_index = BuildTrigramIndex(vocab)
    /\ cache = <<>>
    /\ max_cache_size = MaxCacheSize
    /\ last = [op |-> "init", value |-> None]
    /\ batch = Idle
    /\ doc = Idle
    /\ clean = Idle
    /\ cleaner = Idle
    /\ startup = Idle
    /\ workers = Idle

\* correct_word("vatta") with the default threshold and max_candidates
NextShortlist == CorrectWordCall({W_vatta}, {DefaultThreshold}, {DefaultMaxCandidates})

SpecShortlist == ShortlistInit /\ [][NextShortlist]_vars

-----------------------------------------------------------------------------
(* main.py: process_all_pdfs on one PDF, with the loader it calls *)

\* the characters of [A-Za-z0-9.,;:()'"-], the tokens ocr_extract_english keeps
OcrChars == AsciiLetters \cup Digits \cup {".", ",", ";", ":", "(", ")", "'", "\"", "-"}

\* the longest word ocr_extract_english keeps
MaxOcrWord == 25

\* ocr_extract_english on the words tesseract reads from the page
OcrExtractEnglish(words) ==
    LET English(word) == /\ \A i \in 1..Len(word) : word[i] \in OcrChars
                         /\ Len(word) <= MaxOcrWord
    IN  JoinWith(SelectSeq(words, English), <<" ">>)

\* "if not cleaned_text.strip(): cleaned_text = raw_text"
OrRaw(cleaned_text, raw_text) ==
    IF Strip(cleaned_text, Whitespace) = <<>> THEN raw_text ELSE cleaned_text

\* the splits nltk.sent_tokenize may make of the text postprocess_text hands to
\* clean_text
CutsOf(text, repeated_lines) ==
    SUBSET SentenceCuts(Normalized(TextCleaned(text, repeated_lines)))

\* the pages of the PDFs: the text of the page, or the words on its image
P_header == <<"H", "d", "\n", "v", "a", "t", "a", " ", "b", "o", "d", "y">>
P_header_other == <<"H", "d", "\n", "s", "o", "m", "e", " ", "t", "e", "x", "t">>
P_fuzzy == <<"p", "i", "t", "t", "t", "a", " ", "r", "i", "s", "e", "s">>
P_plain == <<"t", "w", "o", " ", "l", "i", "n", "e", "s", ".", "\n", "M", "o", "r", "e", " ", "h", "e", "r", "e">>
P_deva == <<"ka", "-aa", " ", "v", "a", "t", "a", "\n", "d", "o", "s", "h", "a">>
Pages == {P_header, P_header_other, P_fuzzy, P_plain, P_deva}
\* most pages of a PDF handed to process_all_pdfs
MaxPdfPages == 2
Pdfs == UNION {[1..n -> Pages] : n \in 0..MaxPdfPages}

\* process_all_pdfs is at the top of the loop body for one PDF: nothing loaded
FlowInit ==
    /\ CheckerInit
    /\ vocab = {W_vata}
    /\ batch = Idle
    /\ clean = Idle
    /\ cleaner = Idle
    /\ startup = Idle
    /\ workers = Idle
    /\ \E pdf \in Pdfs, scanned \in BOOLEAN, default_process \in BOOLEAN :
           doc = [op |-> "process_all_pdfs",
                  pc |-> IF pdf = <<>> THEN "detect" ELSE "load",
                  pdf |-> pdf, scanned |-> scanned,
                  default_process |-> default_process,
                  page_text |-> <<>>, raw_docs |-> <<>>,
                  all_lines_per_page |-> <<>>, repeated_lines |-> {},
                  docs |-> <<>>,
                  postprocessed |-> [i \in 1..Len(pdf) |-> 0]]

\* the next page is loaded: the loader's loop body, postprocess_text(text)
\* with no repeated lines and no raw_text on the text of the page
LoadPage(text) ==
    \E cuts \in CutsOf(text, {}) :
        doc' = [doc EXCEPT
                   !.page_text = Append(@, text),
                   !.raw_docs = Append(@, OrRaw(PostprocessText(text, {}, None,
                                                                doc.default_process, cuts),
                                                text)),
                   !.postprocessed[Len(doc.raw_docs) + 1] = @ + 1,
                   !.pc = IF Len(doc.raw_docs) + 1 = Len(doc.pdf)
                          THEN "detect" ELSE "load"]

\* load_text_pdf: one page
LoadTextPage ==
    /\ doc.pc = "load"
    /\ ~doc.scanned
    /\ LoadPage(doc.pdf[Len(doc.raw_docs) + 1])
    /\ UNCHANGED <<checkerVars, batch, clean, cleaner, startup, workers>>

\* load_scanned_pdf: one page
LoadScannedPage ==
    /\ doc.pc = "load"
    /\ doc.scanned
    /\ LoadPage(OcrExtractEnglish(SplitWords(doc.pdf[Len(doc.raw_docs) + 1], 0)))
    /\ UNCHANGED <<checkerVars, batch, clean, cleaner, startup, workers>>

\* lines 31-32: the lines of the loaded contents, and detect_repeated_lines
DetectRepeated ==
    /\ doc.pc = "detect"
    /\ doc' = [doc EXCEPT
                  !.all_lines_per_page =
                      [i \in 1..Len(doc.raw_docs) |-> SplitLines(doc.raw_docs[i], 0)],
                  !.repeated_lines =
                      DetectRepeatedLines(
                          [i \in 1..Len(doc.raw_docs) |-> SplitLines(doc.raw_docs[i], 0)],
                          DefaultMinRepeat),
                  !.pc = IF doc.pdf = <<>> THEN "done" ELSE "pages"]
    /\ UNCHANGED <<checkerVars, batch, clean, cleaner, startup, workers>>

\* lines 35-65: one page of raw_docs is cleaned against repeated_lines, with
\* its content as raw_text, and appended to docs
ProcessPage ==
    /\ doc.pc = "pages"
    /\ \E raw_text \in {doc.raw_docs[Len(doc.docs) + 1]} :
       \E cuts \in CutsOf(raw_text, doc.repeated_lines) :
       \E cleaned_text \in {OrRaw(PostprocessText(raw_text, doc.repeated_lines, raw_text,
                                                  doc.default_process, cuts),
                                  raw_text)} :
           doc' = [doc EXCEPT
                      !.docs = Append(@, [content |-> cleaned_text,
                                          entities |-> EntitiesFound(cleaned_text)]),
                      !.postprocessed[Len(doc.docs) + 1] = @ + 1,
                      !.pc = IF Len(doc.docs) + 1 = Len(doc.pdf)
                             THEN "done" ELSE "pages"]
    /\ UNCHANGED <<checkerVars, batch, clean, cleaner, startup, workers>>

NextFlow ==
    \/ LoadTextPage
    \/ LoadScannedPage
    \/ DetectRepeated
    \/ ProcessPage

SpecFlow == FlowInit /\ [][NextFlow]_vars

-----------------------------------------------------------------------------
(* Threads calling correct_word on the module-level singleton: the code takes
   no lock, so the steps of correct_word and _update_cache interleave *)

\* the threads sharing get_sanskrit_checker()
Workers == {1, 2}

\* the smallest max_cache_size at which _update_cache removes an entry:
\* len(self.cache) // 4 >= 1
MinEvictingSize == 4

\* words that correct_word caches with the vocabulary {vata, v(a-)tta}
SharedWords == {W_vatta, W_Vatta, W_VATA, W_Vata, W_vatta_dot}

\* a thread outside correct_word
Outside == [pc |-> "outside"]

SharedInit ==
    /\ vocab = {W_vata, W_vaatta}
    /\ vocab_iter = <<W_vata, W_vaatta>>
    /\ vocab_lower = {Lower(w) : w \in vocab}
    /\ word_frequencies = [w \in vocab |-> 1]
    /\ trigram_index = BuildTrigramIndex(vocab)
    /\ cache = <<>>
    /\ max_cache_size = MinEvictingSize
    /\ last = [op |-> "init", value |-> None]
    /\ workers = [w \in Workers |-> Outside]
    /\ batch = Idle
    /\ doc = Idle
    /\ clean = Idle
    /\ cleaner = Idle
    /\ startup = Idle

\* the frame of a step of one thread
SharedFrame ==
    UNCHANGED <<vocab, vocab_iter, vocab_lower, trigram_index, word_frequencies,
                max_cache_size, batch, doc, clean, cleaner, startup>>

\* what correct_word computes for a key that is not in the cache: the value,
\* and whether it goes on to _update_cache
Computed(word, t) ==
    CorrectUncached(<<>>, word, Strip(word, PunctStripChars), t, DefaultMaxCandidates)

\* the cache without the entry of a key
Popped(c, word, t) ==
    SelectSeq(c, LAMBDA e : ~(e.word = word /\ e.threshold = t))

\* self.cache[key] = value: a key already there keeps its place
Stored(c, word, t, value) ==
    IF CacheIndex(c, word, t) = 0
    THEN Append(c, [word |-> word, threshold |-> t, value |-> value])
    ELSE [c EXCEPT ![CacheIndex(c, word, t)].value = value]

\* return from correct_word
Return(w, word, value) ==
    /\ workers' = [workers EXCEPT ![w] = Outside]
    /\ last' = [op |-> "correct_word", value |-> value, word |-> word, worker |-> w]

\* an exception leaves correct_word: the thread's call has failed
Raise(w, exception, line) ==
    /\ workers' = [workers EXCEPT ![w] = [pc |-> "raised", exception |-> exception,
                                          line |-> line, word |-> @.word]]
    /\ UNCHANGED <<cache, last>>

\* lines 291-292 and, on a miss, 295-335: "cache_key in self.cache", then the
\* stages, which read the vocabulary only
Lookup(w) ==
    /\ workers[w].pc = "outside"
    /\ \E word \in SharedWords, t \in {DefaultThreshold} :
           IF CacheIndex(cache, word, t) # 0
           THEN /\ workers' = [workers EXCEPT ![w] = [pc |-> "hit", word |-> word,
                                                      threshold |-> t]]
                /\ UNCHANGED <<cache, last>>
           ELSE \E r \in {Computed(word, t)} :
                    IF r.cache = <<>>
                    THEN Return(w, word, r.ret) /\ UNCHANGED cache
                    ELSE /\ workers' = [workers EXCEPT ![w] =
                                            [pc |-> "len", word |-> word,
                                             threshold |-> t, value |-> r.ret]]
                         /\ UNCHANGED <<cache, last>>
    /\ SharedFrame

\* line 293: "return self.cache[cache_key]"
Hit(w) ==
    /\ workers[w].pc = "hit"
    /\ \E i \in {CacheIndex(cache, workers[w].word, workers[w].threshold)} :
           IF i = 0
           THEN Raise(w, "KeyError", 293)
           ELSE Return(w, workers[w].word, cache[i].value) /\ UNCHANGED cache
    /\ SharedFrame

\* line 344: "if len(self.cache) >= self.max_cache_size"
TestLen(w) ==
    /\ workers[w].pc = "len"
    /\ workers' = [workers EXCEPT ![w].pc =
                       IF Len(cache) >= max_cache_size THEN "quarter" ELSE "store"]
    /\ UNCHANGED <<cache, last>>
    /\ SharedFrame

\* lines 346-347: "items_to_remove = len(self.cache) // 4" and range() of it
Quarter(w) ==
    /\ workers[w].pc = "quarter"
    /\ workers' = [workers EXCEPT ![w] =
                       [pc |-> IF Len(cache) \div 4 > 0 THEN "first" ELSE "store",
                        word |-> @.word, threshold |-> @.threshold, value |-> @.value,
                        items_to_remove |-> Len(cache) \div 4]]
    /\ UNCHANGED <<cache, last>>
    /\ SharedFrame

\* line 348, the argument: "next(iter(self.cache))"
First(w) ==
    /\ workers[w].pc = "first"
    /\ IF cache = <<>>
       THEN Raise(w, "StopIteration", 348)
       ELSE /\ workers' = [workers EXCEPT ![w] =
                               [pc |-> "pop", word |-> @.word, threshold |-> @.threshold,
                                value |-> @.value, items_to_remove |-> @.items_to_remove,
                                oldest |-> [word |-> cache[1].word,
                                            threshold |-> cache[1].threshold]]]
            /\ UNCHANGED <<cache, last>>
    /\ SharedFrame

\* line 348, the call: "self.cache.pop(...)", and the next turn of the loop
Pop(w) ==
    /\ workers[w].pc = "pop"
    /\ IF CacheIndex(cache, workers[w].oldest.word, workers[w].oldest.threshold) = 0
       THEN Raise(w, "KeyError", 348)
       ELSE /\ cache' = Popped(cache, workers[w].oldest.word, workers[w].oldest.threshold)
            /\ workers' = [workers EXCEPT ![w] =
                               [pc |-> IF @.items_to_remove > 1 THEN "first" ELSE "store",
                                word |-> @.word, threshold |-> @.threshold,
                                value |-> @.value,
                                items_to_remove |-> @.items_to_remove - 1]]
            /\ UNCHANGED last
    /\ SharedFrame

\* line 350 and the return of correct_word
Store(w) ==
    /\ workers[w].pc = "store"
    /\ cache' = Stored(cache, workers[w].word, workers[w].threshold, workers[w].value)
    /\ Return(w, workers[w].word, workers[w].value)
    /\ SharedFrame

NextShared ==
    \E w \in Workers :
        \/ Lookup(w)
        \/ Hit(w)
        \/ TestLen(w)
        \/ Quarter(w)
        \/ First(w)
        \/ Pop(w)
        \/ Store(w)

SpecShared == SharedInit /\ [][NextShared]_vars

-----------------------------------------------------------------------------
(* postprocess_text on pages whose lines sit at the limits of its filters *)

\* a line at both limits of remove_devanagari_and_gibberish: a fifth of it
\* symbols, two fifths letters
F_edge == <<"a", "b", "#", ".", ".">>
ChainLines == {F_words, F_dev, F_sym, F_edge, H_blank}
ChainTexts == {JoinWith(lines, <<"\n">>) :
                  lines \in UNION {[1..n -> ChainLines] : n \in 0..MaxLines}}

ChainInit ==
    /\ CheckerInit
    /\ vocab = {W_vata}
    /\ batch = Idle
    /\ doc = Idle
    /\ cleaner = Idle
    /\ startup = Idle
    /\ workers = Idle
    /\ clean \in {[op |-> "call", fn |-> "postprocess_text", text |-> text,
                   repeated_lines |-> {}, raw_text |-> None,
                   default_process |-> FALSE] : text \in ChainTexts}

NextChain == PostprocessTextCall

SpecChain == ChainInit /\ [][NextChain]_vars

-----------------------------------------------------------------------------
(* Claims about the corrector *)

\* the words correct_word is asked about in the claims below
AllWords == InputWords \cup VocabUniverse

\* the value correct_word(word, t) returns in the current state
Returns(word, t) == CorrectWord(cache, word, t, DefaultMaxCandidates).ret

\* C1: for every term w of the vocabulary and every threshold t,
\* correct_word(w, t) returns w, whatever the cache holds.
C1_ExactMatchReturnsWord ==
    \A w \in vocab, t \in Thresholds : Returns(w, t) = w

\* C2: correct_word(w, t) returns the same value as on a corrector with the
\* same vocabulary, frequencies and index but an empty cache.
C2_CacheNeverChangesResult ==
    \A w \in AllWords, t \in Thresholds :
        Returns(w, t) = CorrectWord(<<>>, w, t, DefaultMaxCandidates).ret

\* C3: the cache never holds more than max_cache_size entries, for every
\* max_cache_size >= 1.
C3_CacheBounded == Len(cache) <= max_cache_size

\* the 3-character windows of '#' + lower(v) + '#'
PaddedLower(v) == <<"#">> \o Lower(v) \o <<"#">>
Windows(v) == {SubSeq(PaddedLower(v), i, i + 2) : i \in 1..Len(v)}

\* C4: the trigram index is exact: every vocabulary term is in the bucket of
\* each 3-character window of its padded lowercase form, and every term in a
\* bucket is a vocabulary term whose padded lowercase form contains the trigram.
C4_TrigramIndexExact ==
    /\ \A v \in vocab : \A g \in Windows(v) :
           g \in DOMAIN trigram_index /\ v \in trigram_index[g]
    /\ \A g \in DOMAIN trigram_index : \A v \in trigram_index[g] :
           v \in vocab /\ Len(g) = 3 /\ IsSubstring(g, PaddedLower(v))

\* C4 witness: add_words has run, and the bucket of "ta#" holds three terms,
\* one of them indexed under the lowercase form of its capital letter
C4_Witness ==
    /\ last.op = "add_words"
    /\ vocab = VocabUniverse
    /\ trigram_index[<<"t", "a", "#">>] = VocabUniverse
    /\ W_Vatta \in trigram_index[<<"#", "v", "a">>]

\* C5: for thresholds t2 < t1, if correct_word(w, t1) returns a correction c
\* then correct_word(w, t2), called next on the same corrector, returns a
\* correction whose similarity to w is at least that of c.
C5_ThresholdMonotonic ==
    \A w \in AllWords, t1 \in Thresholds, t2 \in Thresholds :
        \A r1 \in {CorrectWord(cache, w, t1, DefaultMaxCandidates)} :
            \A r2 \in {CorrectWord(r1.cache, w, t2, DefaultMaxCandidates)} :
                (t2 < t1 /\ r1.ret # None) =>
                    /\ r2.ret # None
                    /\ FracGeq(Score(Strip(w, PunctStripChars), r2.ret),
                               Score(Strip(w, PunctStripChars), r1.ret))

\* the cache correct_text starts from for the i-th text of the last batch
RECURSIVE CacheBefore(_)
CacheBefore(i) ==
    IF i = 1 THEN batch.cache_before
    ELSE CorrectText(CacheBefore(i - 1), batch.texts[i - 1], batch.threshold).cache

\* C6: batch_correct(texts, t) returns a list as long as texts whose i-th
\* element is what correct_text returns for the i-th text, on the corrector as
\* the texts before it left it.
C6_BatchInOrder ==
    batch.op = "batch_correct" =>
        /\ Len(batch.ret) = Len(batch.texts)
        /\ \A i \in 1..Len(batch.texts) :
               batch.ret[i] = CorrectText(CacheBefore(i), batch.texts[i], batch.threshold).ret

\* C6 witness: a batch of two texts, the first empty, the second corrected
\* with the punctuation kept; and the empty batch
C6_Witness ==
    /\ batch.op = "batch_correct"
    /\ batch.texts = <<Text_empty, Text_two_words>>
    /\ batch.ret = <<Text_empty, W_vaatta \o <<",">> \o W_vaatta>>

\* the thresholds the claims on a loaded vocabulary ask about
FuzzyThresholds == Thresholds \cup {50}

\* C14: when correct_word(w, t) reaches the fuzzy stage (no cache entry, no
\* exact or case-insensitive match, stripped word of 3 or more characters) it
\* returns None if no shortlisted candidate scores t or more, and otherwise a
\* shortlisted candidate scoring t or more that no shortlisted candidate beats
\* on score, nor with an equal score and a greater frequency.
C14_FuzzyWinner ==
    \A w \in FuzzyWords, t \in FuzzyThresholds, mc \in MaxCandidateValues :
        (/\ CacheIndex(cache, w, t) = 0
         /\ Strip(w, PunctStripChars) \notin vocab
         /\ Lower(Strip(w, PunctStripChars)) \notin vocab_lower
         /\ Len(Strip(w, PunctStripChars)) >= 3)
        => \A r \in {CorrectWord(cache, w, t, mc).ret} :
           \A wc \in {Strip(w, PunctStripChars)} :
           \A cands \in {GetCandidatesFast(trigram_index, wc, mc)} :
               IF \A x \in cands : ~FracGeq(Score(wc, x), ThresholdFrac(t))
               THEN r = None
               ELSE /\ r \in cands
                    /\ FracGeq(Score(wc, r), ThresholdFrac(t))
                    /\ \A d \in cands :
                           /\ ~FracGt(Score(wc, d), Score(wc, r))
                           /\ ~(/\ FracEq(Score(wc, d), Score(wc, r))
                                /\ FreqOf(d) > FreqOf(r))

\* two terms with the same score, the one later in the iteration order won on
\* its frequency
C14_Witness ==
    /\ vocab_iter = <<W_vata, W_Vata>>
    /\ word_frequencies[W_vata] = 1
    /\ word_frequencies[W_Vata] = 2
    /\ last = [op |-> "correct_word", value |-> W_Vata]
    /\ CacheIndex(cache, W_vatta, DefaultThreshold) # 0
    /\ cache[CacheIndex(cache, W_vatta, DefaultThreshold)].value = W_Vata

\* C15: for a word whose stripped form is empty or shorter than 3 characters
\* correct_word returns a vocabulary term equal to it up to letter case when
\* there is one, and None otherwise: never a fuzzy candidate.
C15_ShortWordsNotCorrected ==
    \A w \in FuzzyWords, t \in FuzzyThresholds, mc \in MaxCandidateValues :
        Len(Strip(w, PunctStripChars)) < 3
        => \A r \in {CorrectWord(cache, w, t, mc).ret} :
               IF \E v \in vocab : Lower(v) = Lower(Strip(w, PunctStripChars))
               THEN r \in vocab /\ Lower(r) = Lower(Strip(w, PunctStripChars))
               ELSE r = None

\* "VA" was answered with the term "va", and "va" is again what a call returns
C15_Witness ==
    /\ W_va \in vocab
    /\ last = [op |-> "correct_word", value |-> W_va]
    /\ CacheIndex(cache, W_VA, DefaultThreshold) # 0
    /\ CorrectWord(cache, W_VA, DefaultThreshold, DefaultMaxCandidates).ret = W_va
    /\ CorrectWord(cache, W_dots, DefaultThreshold, DefaultMaxCandidates).ret = None

-----------------------------------------------------------------------------
(* Claims about text_cleaning *)

\* the pages of the document on which a line occurs, compared trimmed and
\* lower-cased, blank lines aside
PagesWith(all_pages, line) ==
    {i \in 1..Len(all_pages) :
        \E j \in 1..Len(all_pages[i]) :
            /\ Strip(all_pages[i][j], Whitespace) # <<>>
            /\ Lower(Strip(all_pages[i][j], Whitespace)) = line}

\* every trimmed, lower-cased line of the document
LinesOf(all_pages) ==
    UNION {{Lower(Strip(all_pages[i][j], Whitespace)) : j \in 1..Len(all_pages[i])} :
              i \in 1..Len(all_pages)}

\* C7: detect_repeated_lines returns exactly the trimmed, lower-cased non-blank
\* lines for which (pages containing the line) / (pages) >= min_repeat, a page
\* counting once however often it holds the line; with 10 pages and 0.3 a line
\* on 3 pages is returned and a line on 2 pages is not.
C7_RepeatedLinesByPageFraction ==
    doc.op = "detect_repeated_lines" =>
        /\ doc.ret =
               {line \in LinesOf(doc.all_pages) \ {<<>>} :
                   Cardinality(PagesWith(doc.all_pages, line)) * doc.min_repeat[2]
                       >= doc.min_repeat[1] * Len(doc.all_pages)}
        /\ (Len(doc.all_pages) = 10 /\ doc.min_repeat = DefaultMinRepeat) =>
               \A line \in LinesOf(doc.all_pages) \ {<<>>} :
                   /\ Cardinality(PagesWith(doc.all_pages, line)) = 3
                          => line \in doc.ret
                   /\ Cardinality(PagesWith(doc.all_pages, line)) = 2
                          => line \notin doc.ret

\* ten pages, the header on exactly three of them (twice on each, in two
\* spellings), found with the default min_repeat
C7_Witness ==
    /\ doc.op = "detect_repeated_lines"
    /\ Len(doc.all_pages) = 10
    /\ doc.min_repeat = DefaultMinRepeat
    /\ Cardinality(PagesWith(doc.all_pages, L_header_lower)) = 3
    /\ L_header_lower \in doc.ret
    /\ L_other \notin doc.ret


\* C8: when normalize_spelling(word, raw_text) finds no exact or variant match
\* and raw_text is a string (the empty one included), it returns either the
\* word unchanged or a canonical name whose lower-case form occurs in the
\* lower-cased raw_text; and "pita" is returned unchanged whenever raw_text
\* does not contain "pitta".
C8_PhantomGuard ==
    (/\ clean.op = "normalize_spelling"
     /\ ExactOrVariant(LettersOnly(clean.word)) = {})
    => /\ clean.raw_text # None =>
              \/ clean.ret = clean.word
              \/ /\ clean.ret \in Range(CANONICAL_NAMES)
                 /\ IsSubstring(Lower(clean.ret), Lower(clean.raw_text))
       /\ (/\ clean.word = N_pita
           /\ \/ clean.raw_text = None
              \/ ~IsSubstring(R_pitta, Lower(clean.raw_text)))
          => clean.ret = N_pita

\* C9: extract_ayurveda_entities(text) returns, each once, exactly the canonical
\* names whose lower-case form is a substring of the lower-cased text; the text
\* "Pitta dosha causes imbalance" yields pitta and dosha.
C9_EntitiesAreSubstringMatches ==
    clean.op = "extract_ayurveda_entities" =>
        /\ Range(clean.ret) =
               {name \in Range(CANONICAL_NAMES) :
                   \E i \in 0..Len(clean.text) : \E n \in 0..Len(clean.text) - i :
                       Lower(SubSeq(clean.text, i + 1, i + n)) = Lower(name)}
        /\ Len(clean.ret) = Cardinality(Range(clean.ret))
        /\ clean.text = E_example =>
               Range(clean.ret) = {CANONICAL_NAMES[1], CANONICAL_NAMES[2]}

\* the example text, with both names found
C9_Witness ==
    /\ clean.op = "extract_ayurveda_entities"
    /\ clean.text = E_example
    /\ clean.ret = <<CANONICAL_NAMES[2], CANONICAL_NAMES[1]>>

\* does the line hold a canonical name, letter case aside
HoldsTerm(line) ==
    \E name \in Range(CANONICAL_NAMES) :
        \E i \in 0..Len(line) : \E n \in 0..Len(line) - i :
            Lower(SubSeq(line, i + 1, i + n)) = Lower(name)

\* is the line dropped, as the claim states it
Dropped(line, repeated_lines) ==
    \/ \A i \in 1..Len(line) : line[i] \in Whitespace
    \/ /\ Lower(Strip(line, Whitespace)) \in repeated_lines
       /\ ~HoldsTerm(line)

\* C10: remove_headers_footers returns the lines in order without those that
\* are blank or whose trimmed, lower-cased form is in repeated_lines while they
\* hold no canonical name (letter case aside); a repeated line with a name and
\* a line not in repeated_lines are retained.
C10_HeadersFootersDropped ==
    clean.op = "remove_headers_footers" =>
        \E kept \in SUBSET (1..Len(clean.lines)) :
            /\ kept = {i \in 1..Len(clean.lines) :
                          ~Dropped(clean.lines[i], clean.repeated_lines)}
            /\ Len(clean.ret) = Cardinality(kept)
            /\ \A k \in 1..Len(clean.ret) :
                   \E i \in kept :
                       /\ Cardinality({j \in kept : j <= i}) = k
                       /\ clean.ret[k] = clean.lines[i]

\* a repeated header dropped, a repeated line with a name and a line that is
\* not repeated kept
C10_Witness ==
    /\ clean.op = "remove_headers_footers"
    /\ clean.lines = <<H_page, H_term, H_body>>
    /\ Lower(Strip(H_page, Whitespace)) \in clean.repeated_lines
    /\ Lower(Strip(H_term, Whitespace)) \in clean.repeated_lines
    /\ clean.ret = <<H_term, H_body>>


-----------------------------------------------------------------------------
(* Claims about clean_text, postprocess_text and correct_text *)

\* is a an order-preserving subsequence of b
RECURSIVE IsSubsequence(_, _)
IsSubsequence(a, b) ==
    IF a = <<>> THEN TRUE
    ELSE IF b = <<>> THEN FALSE
    ELSE IF Head(a) = Head(b) THEN IsSubsequence(Tail(a), Tail(b))
    ELSE IsSubsequence(a, Tail(b))

\* C11: the lines postprocess_text keeps after its four filters are an
\* order-preserving subsequence of the lines of its input: each is an input
\* line, unmodified, in the input's relative order.
C11_FilterKeepsSubsequence ==
    clean.op = "postprocess_text" =>
        IsSubsequence(clean.cleaned_lines, clean.lines)

\* C12: clean_text is idempotent: applied to its own result with the same
\* raw_text it returns that result, whichever sentence ends the tokenizer takes.
C12_CleanTextIdempotent ==
    clean.op = "clean_text" =>
        \E cuts \in SUBSET SentenceCuts(Normalized(clean.ret)) :
            CleanText(clean.ret, clean.raw_text, clean.default_process, cuts)
                = clean.ret

\* the code points of the model; no exception and no None is one of them
CodePoints ==
    AsciiLetters \cup Digits \cup Whitespace \cup PunctChars \cup Devanagari
        \cup {"a-", "A-", FiLigature}

\* a str: a sequence of code points
IsStr(x) == \A i \in DOMAIN x : x[i] \in CodePoints

\* C13: correct_text, the line filters of postprocess_text and clean_text
\* return a str, raising nothing, for every input, the empty string,
\* punctuation only and Devanagari only included.
C13_NoErrorOnAnyInput ==
    /\ clean.op = "clean_text" => IsStr(clean.ret)
    /\ clean.op = "postprocess_text" =>
           /\ IsStr(clean.ret)
           /\ \A i \in DOMAIN clean.cleaned_lines : IsStr(clean.cleaned_lines[i])
    /\ batch.op = "correct_text" => IsStr(batch.ret)

\* correct_text returned the word for which every candidate scored below the
\* threshold
C13_Witness ==
    /\ batch.op = "correct_text"
    /\ batch.text = T_unknown
    /\ batch.ret = T_unknown
    /\ GetCandidatesFast(trigram_index, T_unknown, DefaultMaxCandidates) # {}


\* the one element of a set of one element
Only(S) == CHOOSE x \in S : TRUE

\* the tokens correct_text puts out for the tokens toks on a corrector whose
\* cache is c: punctuation as it is, a word as it is when correct_word returns
\* None for it, and else the correction
RECURSIVE PassThrough(_, _, _)
PassThrough(c, toks, t) ==
    IF toks = <<>> THEN <<>>
    ELSE IF IsPunct(Head(toks)[1])
         THEN <<Head(toks)>> \o PassThrough(c, Tail(toks), t)
    ELSE Only({<<IF r.ret = None THEN Head(toks) ELSE r.ret>>
                   \o PassThrough(r.cache, Tail(toks), t) :
               r \in {CorrectWord(c, Head(toks), t, DefaultMaxCandidates)}})

\* C16: the output of correct_text is its tokens in their order, written one
\* after the other with no whitespace put in: every punctuation token and every
\* word for which correct_word returns None unchanged, the other words replaced
\* by their correction.
C16_TokensPassThrough ==
    batch.op = "correct_text" =>
        /\ batch.ret = Join(PassThrough(<<>>, FindAll(batch.text, 0), batch.threshold))
        /\ Len(batch.ret) >=
               Cardinality({i \in 1..Len(batch.text) : IsPunct(batch.text[i])})
        /\ \A i \in 1..Len(batch.ret) :
               IsSpace(batch.ret[i]) => \E j \in 1..Len(batch.text) : IsSpace(batch.text[j])

\* punctuation, a word without correction and a corrected word in one text
C16_Witness ==
    /\ batch.op = "correct_text"
    /\ batch.text = T_mixed
    /\ batch.ret = T_unknown \o <<",", "(">> \o W_vaatta \o <<")", "g", "o", "!">>


\* the terms whose canonical name or one of whose variants equals word_clean
\* when case is ignored
MatchesIgnoringCase(word_clean) ==
    {i \in 1..Len(AYUR_TERMS) :
        \/ Lower(word_clean) = Lower(AYUR_TERMS[i].canonical)
        \/ \E k \in 1..Len(AYUR_TERMS[i].variants) :
               Lower(word_clean) = Lower(AYUR_TERMS[i].variants[k])}

\* C17: normalize_spelling returns the canonical name whenever the letters-only
\* form of the word equals, ignoring case, the canonical name or one of its
\* variants, whatever the context raw_text is.
C17_VariantIgnoringCase ==
    (/\ clean.op = "normalize_spelling"
     /\ MatchesIgnoringCase(LettersOnly(clean.word)) # {})
    => clean.ret \in {AYUR_TERMS[i].canonical :
                          i \in MatchesIgnoringCase(LettersOnly(clean.word))}


\* C18: detect_repeated_lines on a document of no page or of one page returns
\* the empty set: no line of a one-page document counts as a repeated header
\* or footer.
C18_FewPagesNoRepeatedLines ==
    (/\ doc.op = "detect_repeated_lines"
     /\ Len(doc.all_pages) <= 1)
    => doc.ret = {}


-----------------------------------------------------------------------------
(* Claims about IntegratedTextCleaner and about startup *)

\* C19: IntegratedTextCleaner.clean_text on a text that is shorter than 10
\* characters after trimming raises no error and returns the input text
\* unchanged.
C19_TooShortReturnsInput ==
    (/\ "call" \in DOMAIN cleaner
     /\ cleaner.call.op = "clean_text"
     /\ Len(Strip(cleaner.call.text, Whitespace)) < MinTextLength)
    => cleaner.call.ret[1] = cleaner.call.text


\* C20: when the vocabulary or dictionary file named at startup is missing or
\* malformed, initialization aborts with an error: no corrector, no cleaner and
\* no text_cleaning module backed by a substitute or empty vocabulary becomes
\* usable.
C20_LoadFailureIsFatal ==
    "checker" \in DOMAIN startup =>
        /\ startup.vocab_file \in {"missing"} \cup RaisingVocabFiles
               => startup.checker # "ready"
        /\ (startup.csv # "ok" \/ startup.terms_json # "ok")
               => /\ startup.integrated # "ready"
                  /\ startup.text_cleaning # "imported"


-----------------------------------------------------------------------------
(* Claims about the cache, add_words and the candidate shortlist *)

\* how many entries _update_cache removes from the cache c before it stores
ItemsToRemove(c) == IF Len(c) >= max_cache_size THEN Len(c) \div 4 ELSE 0

\* C21: an insert into a cache that holds at least max_cache_size entries
\* first removes exactly floor(size / 4) entries, the ones inserted earliest;
\* every entry inserted later survives, in its place; an insert into a cache
\* with fewer entries removes nothing.
C21_FifoByQuarter ==
    [][(last'.op = "correct_word" /\ cache' # cache) =>
           /\ Len(cache') = Len(cache) - ItemsToRemove(cache) + 1
           /\ SubSeq(cache', 1, Len(cache') - 1)
                  = SubSeq(cache, ItemsToRemove(cache) + 1, Len(cache))
           /\ \A i \in 1..Len(cache) : cache'[Len(cache')] # cache[i]]_vars

\* the insert of "vatta." into the full cache has removed the oldest entry,
\* the one of "vatta", which batch_correct had stored before the one of "Vatta"
C21_Witness ==
    /\ last.op = "correct_word"
    /\ max_cache_size = 4
    /\ Len(cache) = 4
    /\ cache[1].word = W_Vatta
    /\ cache[4].word = W_vatta_dot
    /\ \A i \in 1..4 : cache[i].word # W_vatta


\* C22: add_words is incremental: a bucket changes only by gaining added terms
\* of which it is a trigram, no bucket is lost, every term of the vocabulary
\* stays in it, and the frequency of every term not listed is unchanged.
C22_AddWordsIncremental ==
    [][last'.op = "add_words" =>
           \E words \in WordLists :
               /\ vocab' = vocab \cup Range(words)
               /\ \A g \in DOMAIN trigram_index :
                      /\ g \in DOMAIN trigram_index'
                      /\ trigram_index[g] \subseteq trigram_index'[g]
               /\ \A g \in DOMAIN trigram_index' :
                      Bucket(trigram_index', g) \ Bucket(trigram_index, g)
                          \subseteq {w \in Range(words) : g \in GetTrigrams(Lower(w))}
               /\ DOMAIN word_frequencies' = DOMAIN word_frequencies \cup Range(words)
               /\ \A w \in DOMAIN word_frequencies \ Range(words) :
                      word_frequencies'[w] = word_frequencies[w]]_vars

\* add_words has run more than once: all three terms are in the vocabulary,
\* one bucket holds the three of them, one term has the count 3 given for it
\* and another the count 1
C22_Witness ==
    /\ last.op = "add_words"
    /\ vocab = VocabUniverse
    /\ \E g \in DOMAIN trigram_index : trigram_index[g] = VocabUniverse
    /\ \E v, w \in vocab : word_frequencies[v] = 3 /\ word_frequencies[w] = 1


\* C23: with default arguments the fuzzy stage of correct_word scores the 50
\* terms with the most trigram votes (all the voted terms when they are fewer):
\* when one of them scores at or above the threshold, the call returns a term
\* that scores at least as high.
C23_TopFiftyScored ==
    last.op = "correct_word" =>
        \A c \in GetCandidatesFast(trigram_index, W_vatta, FastDefaultMaxCandidates) :
            FracGeq(Score(W_vatta, c), ThresholdFrac(DefaultThreshold))
                => /\ last.value # None
                   /\ FracGeq(Score(W_vatta, last.value), Score(W_vatta, c))


-----------------------------------------------------------------------------
(* Claims about the document flow *)

\* C24: in process_all_pdfs the repeated-line set of a document is computed
\* from the raw lines of its pages, before any cleaning step has been applied
\* to any of its pages, and each page is filtered exactly once.
C24_RepeatedLinesFromRawPages ==
    ("pc" \in DOMAIN doc) =>
        /\ doc.pc \in {"load", "detect"} =>
               \A i \in 1..Len(doc.pdf) : doc.postprocessed[i] = 0
        /\ doc.pc \in {"pages", "done"} =>
               doc.all_lines_per_page
                   = [i \in 1..Len(doc.pdf) |-> SplitLines(doc.page_text[i], 0)]
        /\ \A i \in 1..Len(doc.pdf) : doc.postprocessed[i] <= 1
        /\ doc.pc = "done" => \A i \in 1..Len(doc.pdf) : doc.postprocessed[i] = 1

\* C27: on every page-cleaning path (load_text_pdf, load_scanned_pdf,
\* process_all_pdfs) a canonical name that is in the cleaned text of a page
\* without any word of the page being it or one of its variants occurs,
\* case-insensitively, in the source text of the page.
C27_NoPhantomCanonical ==
    ("pc" \in DOMAIN doc) =>
        \A i \in 1..Len(doc.raw_docs) : \A k \in 1..Len(CANONICAL_NAMES) :
            (/\ \/ EntityFound(CANONICAL_NAMES[k], doc.raw_docs[i])
                \/ /\ i <= Len(doc.docs)
                   /\ EntityFound(CANONICAL_NAMES[k], doc.docs[i].content)
             /\ \A word \in Range(SplitWords(doc.page_text[i], 0)) :
                    k \notin ExactOrVariant(LettersOnly(word)))
            => EntityFound(CANONICAL_NAMES[k], doc.page_text[i])

-----------------------------------------------------------------------------
(* Claims about threads sharing the corrector *)

\* C25: when two workers call correct_word concurrently on the shared
\* corrector, in every interleaving the cache holds at most max_cache_size
\* entries, no step of a call fails (an eviction removing a key another worker
\* already removed, a lookup of a key another worker evicted), and every call
\* returns the value it returns when run alone.
C25_SharedCacheSafe ==
    /\ Len(cache) <= max_cache_size
    /\ \A w \in Workers : workers[w].pc # "raised"
    /\ last.op = "correct_word"
           => last.value = Computed(last.word, DefaultThreshold).ret

-----------------------------------------------------------------------------
(* Claims about frequencies, correct_text and the filter chain *)

\* C26: after loading and after any sequence of add_words calls, with or
\* without frequencies, every term of the vocabulary has a frequency entry
\* that is an integer >= 1; re-adding a term never lowers it below 1.
C26_FrequenciesAtLeastOne ==
    \A w \in vocab : w \in DOMAIN word_frequencies /\ word_frequencies[w] >= 1

\* C28: correct_text is the identity on a text whose word tokens are all
\* exact vocabulary terms: the text comes back unchanged, and tokenizing the
\* result gives the tokens of the input.
C28_IdentityOnCorrectText ==
    (/\ batch.op = "correct_text"
     /\ \A i \in 1..Len(FindAll(batch.text, 0)) :
            \/ IsPunct(FindAll(batch.text, 0)[i][1])
            \/ FindAll(batch.text, 0)[i] \in vocab)
    => /\ batch.ret = batch.text
       /\ FindAll(batch.ret, 0) = FindAll(batch.text, 0)

\* C29: in postprocess_text every line that survives
\* remove_devanagari_and_gibberish also survives remove_non_english_garbage
\* and is_noise: the lines after the three stages are the lines after the
\* first stage alone.
C29_FirstFilterDecides ==
    clean.op = "postprocess_text" =>
        clean.cleaned_lines
            = RemoveDevanagariAndGibberish(
                  RemoveHeadersFooters(clean.lines, clean.repeated_lines))

C29_Witness ==
    /\ clean.op = "postprocess_text"
    /\ clean.lines = <<F_sym, F_edge, F_dev>>
    /\ clean.cleaned_lines = <<F_edge, <<"a", "b", " ", " ", " ", "c", "d">>>>

-----------------------------------------------------------------------------
(* Claims about repeated lines in IntegratedTextCleaner *)

\* the words of line stand in text, between white space or the ends of text
StandsIn(line, text) ==
    \E i \in 1..(Len(text) - Len(line) + 1) :
        /\ SubSeq(text, i, i + Len(line) - 1) = line
        /\ (i = 1 \/ text[i - 1] \in Whitespace)
        /\ (i + Len(line) - 1 = Len(text) \/ text[i + Len(line)] \in Whitespace)

\* C30: with the default configuration (preserve_entities enabled), when
\* clean_text is given metadata with repeated_lines, every line of a
\* multi-line input whose trimmed lower-cased form is in repeated_lines and
\* which holds no protected entity is absent from the returned text.
C30_RepeatedLinesRemoved ==
    (/\ "call" \in DOMAIN cleaner
     /\ cleaner.call.op = "clean_text"
     /\ cleaner.config = [enable_ocr_fix |-> TRUE, preserve_entities |-> TRUE]
     /\ "repeated_lines" \in DOMAIN cleaner.call.metadata
     /\ Len(SplitLines(cleaner.call.text, 0)) > 1)
    => \A k \in 1..Len(SplitLines(cleaner.call.text, 0)) :
           (/\ Strip(SplitLines(cleaner.call.text, 0)[k], Whitespace) # <<>>
            /\ ~KeepIntegratedLine(SplitLines(cleaner.call.text, 0)[k],
                                   cleaner.call.metadata.repeated_lines,
                                   cleaner.ayurveda_entities))
           => ~StandsIn(Strip(SplitLines(cleaner.call.text, 0)[k], Whitespace),
                        cleaner.call.ret[1])

====
